---- MODULE Spec2Model ----
(***************************************************************************)
(* A model of the core pipeline of ANJ-Dev-Agentic-Coder:                  *)
(*   - LLMHandler.execute_query         (src/llm_handler.py)               *)
(*   - sanitize_plan, parse_plan_response (src/agent_utils.py)             *)
(*   - LLMHandler._parse_json_with_triple_quotes (src/llm_handler.py)      *)
(*   - AgentPlanner.execute_plan_with_preview (src/agent_planner.py)       *)
(* Each part has its own specification over the module's variables; the    *)
(* variables of the other parts stay at their initial value.               *)
(***************************************************************************)
EXTENDS Integers, Sequences, FiniteSets, TLC

VARIABLES
  \* ---- LLMHandler.execute_query
  config,      \* self.config["llm_providers"]: provider -> [active, models]
  q_pc,        \* "loop" while the provider/model loops run, "done" after return
  q_prov,      \* index into providers_order of the provider being tried
  q_model,     \* index into that provider's model list of the next candidate
  q_calls,     \* the backend adapter calls made so far, in order
  q_seen,      \* the outcomes those calls had
  q_firstOk,   \* position in q_calls of the first call that returned a
               \* non-empty, non-error response (0: none so far)
  q_result,    \* what execute_query returned: [kind, from]
  q_raw,       \* self._last_raw_response: position in q_calls of the call
               \* whose response was stored (0: the "" it is reset to)
  \* ---- sanitize_plan
  s_pc,        \* "in": not yet called, "once": called on s_in, "twice": called
               \* again on the plan the first call returned
  s_in,        \* the plan_data argument
  s_out1,      \* the outcome of sanitize_plan(s_in): [raised, v]
  s_out2,      \* the outcome of sanitize_plan(s_out1.v)
  \* ---- parse_plan_response
  t_pc,        \* "in": not yet called, "done": called on t_text
  t_text,      \* the response argument, as its sequence of text pieces
  t_out,       \* the outcome of parse_plan_response(t_text): [raised, v]
  \* ---- LLMHandler._parse_json_with_triple_quotes
  j_pc,        \* "in": not yet called, "done": called on j_text
  j_text,      \* the response argument, as its sequence of tokens
  j_out,       \* the value _parse_json_with_triple_quotes(j_text) returned
  \* ---- AgentPlanner.execute_plan_with_preview
  p_mode,      \* how the planner talks to the user: "log", "session", "console"
  p_pc,        \* the state of the run
  p_disk,      \* the project's files: file -> content
  p_memory,    \* self.agent.memory: [structure, files]
  p_saved,     \* .memory/agent_memory.json: the memory last saved, or NoMemoryFile
  p_start,     \* p_disk, p_memory and p_saved when the run started
  p_plan,      \* the plan create_plan returned
  p_step,      \* generate_and_preview: index of the next step of the plan
  p_changes,   \* file_changes: the accepted files with their content, in order
  p_previews,  \* the previews answered so far: [file, accepted, edit]
  p_applied,   \* applied_files
  p_queries,   \* the queries sent to the LLM so far: [plan, file]
  p_result,    \* what execute_plan_with_preview returned
  \* ---- AgentHandler.execute_request: the batch of actions
  a_pc,        \* "loop": executing the batch, "done": returned, "raised": an
               \* exception left execute_request
  a_batch,     \* the actions _parse_actions returned
  a_results,   \* results: one entry for each action executed so far
  a_disk,      \* the files the actions wrote into the project
  a_memory,    \* the files recorded in self.memory["files"] by the actions
  a_commands,  \* the commands that were run: [at, proc], the position in
               \* a_batch and what the process did
  a_return,    \* what execute_request returned
  \* ---- LLMHandler.execute_query_stream
  g_config,    \* self.config["llm_providers"] of the streaming query
  g_pc,        \* "loop": in the provider and model loops, "done": the
               \* generator has ended
  g_prov,      \* index in providers_order of the provider the loop is at
  g_model,     \* index of the model the loop is at
  g_calls,     \* the adapter calls made so far: [provider, model, outcome]
  g_chunks,    \* the chunks the generator has yielded
  \* ---- the agent memory of a project and its writers
  m_pc,        \* per writer: "new": no AgentHandler made yet, "ready": made
  m_store,     \* .memory/agent_memory.json: [exists, files], files: path -> record
  m_memory,    \* per writer: self.memory["files"], path -> record
  m_clock,     \* the time of the last record written
  m_written,   \* every record written so far: [path, content, time, by]
  m_saves,     \* the writers that saved the memory, in the order of the saves
  m_loadedAt,   \* per writer: the number of saves made when it loaded the memory
  \* ---- TerminalManager.execute_command and its reader threads
  x_pipe,      \* per stream: the lines the process wrote that the reader has not read
  x_exited,    \* the process has exited (and closed its ends of the pipes)
  x_reader,    \* per stream: "reading", or "done": the thread has ended
  x_queue,     \* output_queue: the (stream, line) tuples put and not yet taken
  x_consumer,  \* execute_command: "loop", "waiting" (after the loop), "done"
  x_yielded,    \* the tuples execute_command has yielded
  \* ---- get_agent (src/agent_handler.py)
  f_pc,        \* "run": get_agent can be called
  f_instance,  \* _agent_instance: None, or the agent with its llm and project_path
  f_calls,     \* the calls of get_agent so far: [llm, project_path]
  f_returned   \* what the last call of get_agent returned

queryVars == <<config, q_pc, q_prov, q_model, q_calls, q_seen, q_firstOk, q_result, q_raw>>
sanVars == <<s_pc, s_in, s_out1, s_out2>>
parseVars == <<t_pc, t_text, t_out>>
jsonVars == <<j_pc, j_text, j_out>>
planVars == <<p_mode, p_pc, p_disk, p_memory, p_saved, p_start, p_plan, p_step,
              p_changes, p_previews, p_applied, p_queries, p_result>>

streamVars == <<g_config, g_pc, g_prov, g_model, g_calls, g_chunks>>
execVars == <<a_pc, a_batch, a_results, a_disk, a_memory, a_commands, a_return>>
memoryVars == <<m_pc, m_store, m_memory, m_clock, m_written, m_saves, m_loadedAt>>
terminalVars == <<x_pipe, x_exited, x_reader, x_queue, x_consumer, x_yielded>>
factoryVars == <<f_pc, f_instance, f_calls, f_returned>>

notQueryVars == <<sanVars, parseVars, jsonVars, planVars, execVars, streamVars, memoryVars, terminalVars, factoryVars>>
notSanVars == <<queryVars, parseVars, jsonVars, planVars, execVars, streamVars, memoryVars, terminalVars, factoryVars>>
notParseVars == <<queryVars, sanVars, jsonVars, planVars, execVars, streamVars, memoryVars, terminalVars, factoryVars>>
notJsonVars == <<queryVars, sanVars, parseVars, planVars, execVars, streamVars, memoryVars, terminalVars, factoryVars>>
notPlanVars == <<queryVars, sanVars, parseVars, jsonVars, execVars, streamVars, memoryVars, terminalVars, factoryVars>>
notExecVars == <<queryVars, sanVars, parseVars, jsonVars, planVars, streamVars, memoryVars, terminalVars, factoryVars>>
notStreamVars == <<queryVars, sanVars, parseVars, jsonVars, planVars, execVars, memoryVars, terminalVars, factoryVars>>
notMemoryVars == <<queryVars, sanVars, parseVars, jsonVars, planVars, streamVars, execVars, terminalVars, factoryVars>>

notTerminalVars == <<queryVars, sanVars, parseVars, jsonVars, planVars, streamVars, execVars, memoryVars, factoryVars>>

notFactoryVars == <<queryVars, sanVars, parseVars, jsonVars, planVars, streamVars, execVars, memoryVars, terminalVars>>

vars == <<queryVars, sanVars, parseVars, jsonVars, planVars, execVars, streamVars, memoryVars, terminalVars, factoryVars>>

(***************************************************************************)
(* Bounds                                                                  *)
(***************************************************************************)
MaxModels == 2       \* longest "models" list of a provider
MaxSteps == 2        \* longest "steps" list of a plan given to sanitize_plan
MaxPieces == 3       \* most text pieces of a response given to parse_plan_response
MaxMembers == 2      \* most members of the outer object or list of a JSON text
MaxPlanSteps == 2    \* most steps of the plan the LLM answers the planner with

(***************************************************************************)
(* JSON values, as json.loads builds them: a value carries its type t.     *)
(* An object is a function kv from its keys; an absent key is not in       *)
(* DOMAIN kv.                                                              *)
(***************************************************************************)
Null == [t |-> "null"]
Absent == [t |-> "absent"]     \* in the tables of inputs: the key is left out
Str(s) == [t |-> "str", s |-> s]
List(xs) == [t |-> "list", xs |-> xs]
Dict(kv) == [t |-> "dict", kv |-> kv]

IsDict(v) == v.t = "dict"
Has(d, k) == k \in DOMAIN d.kv
Get(d, k) == d.kv[k]
Put(d, k, v) == Dict([x \in DOMAIN d.kv \cup {k} |-> IF x = k THEN v ELSE d.kv[x]])

\* The outcome of a call: the value returned, or an exception.
Ok(v) == [raised |-> FALSE, v |-> v]
Raise == [raised |-> TRUE, v |-> Null]

(***************************************************************************)
(* LLMHandler.execute_query                                                *)
(***************************************************************************)
providers_order == <<"local", "gemini", "vscode">>

\* A provider's configuration: its active flag, its "models" list (the
\* models are named 1..n; a list is given by its length) and its
\* "active_models", the models of the list that are switched on: all of
\* them, or the last one only.
ProviderConfigs ==
  {pc \in [active : BOOLEAN, models : 0..MaxModels,
           active_models : SUBSET (1..MaxModels)] :
     pc.active_models \in {1..pc.models, {m \in 1..pc.models : m = pc.models}}}

\* for model in (models or [None]): the candidates of one provider, None = 0
CandidateModels(pc) ==
  IF pc.models = 0 THEN <<0>> ELSE [i \in 1..pc.models |-> i]

\* Lines 179-185: the provider is skipped without any call when it is not
\* active, or has no models and is not vscode.
ProviderSkipped(name) ==
  \/ ~config[name].active
  \/ config[name].models = 0 /\ name # "vscode"

\* What one call of a backend adapter can give back to execute_query.
\*   "raise"       the adapter raises (only _query_local can: its
\*                 "import requests" is outside its try block)
\*   "empty"       a falsy response ("" or None): every handled failure
\*   "text"        non-empty text
\*   "error_text"  non-empty text that carries an error message
\*   "parse_raise" non-empty response on which _parse_json_with_triple_quotes
\*                 raises something other than json.JSONDecodeError
\*                 (json.loads: ValueError on an integer of more than 4300
\*                 digits, TypeError on a non-string message content)
AdapterOutcomes(name) ==
  {"empty", "text", "error_text", "parse_raise"}
     \cup (IF name = "local" THEN {"raise"} ELSE {})

\* Does the loop body raise on this outcome: in the adapter call (line 197)
\* or in the parse of a non-empty response (line 210)?
Raises(outcome) == outcome \in {"raise", "parse_raise"}

\* Line 204 "if response_text:" followed by the return of line 217.
Returned(outcome) == outcome \in {"text", "error_text"}

CaughtNone(outcome) == FALSE

\* Line 218 "except Exception": the exceptions the loop body swallows.
Caught(outcome) == Raises(outcome)

IdleQuery ==
  /\ config = [p \in {"local", "gemini", "vscode"} |-> [active |-> FALSE, models |-> 0, active_models |-> {}]]
  /\ q_pc = "idle"
  /\ q_prov = 1
  /\ q_model = 1
  /\ q_calls = <<>>
  /\ q_seen = {}
  /\ q_firstOk = 0
  /\ q_result = [kind |-> "pending", from |-> 0]
  /\ q_raw = 0

IdleSan ==
  /\ s_pc = "idle"
  /\ s_in = Null
  /\ s_out1 = Ok(Null)
  /\ s_out2 = Ok(Null)

IdleParse ==
  /\ t_pc = "idle"
  /\ t_text = <<>>
  /\ t_out = Ok(Null)

IdleJson ==
  /\ j_pc = "idle"
  /\ j_text = <<>>
  /\ j_out = Null

\* The content of a file: none (no such file), the content on disk before
\* the run (n = 1) or an earlier one (n = 0), the code generated for step n
\* of the plan, or the empty code extracted from a failed query.
NoContent == [kind |-> "none", n |-> 0]

\* AgentHandler._initialize_memory, line 63: the memory of a new project.
FreshMemory ==
  [structure |-> [set |-> FALSE, files |-> {}],
   files |-> [f \in {"a.py", "b.py"} |-> NoContent]]

\* .memory/agent_memory.json: not there, or holding the memory last saved.
NoMemoryFile == [exists |-> FALSE, memory |-> FreshMemory]
SavedMemory(memory) == [exists |-> TRUE, memory |-> memory]

PendingResult == [success |-> FALSE, message |-> "", files_changed |-> <<>>]

IdlePlan ==
  /\ p_mode = "log"
  /\ p_pc = "idle"
  /\ p_disk = [f \in {"a.py", "b.py"} |-> NoContent]
  /\ p_memory = FreshMemory
  /\ p_saved = NoMemoryFile
  /\ p_start = [disk |-> p_disk, memory |-> p_memory, saved |-> p_saved]
  /\ p_plan = Null
  /\ p_step = 1
  /\ p_changes = <<>>
  /\ p_previews = {}
  /\ p_applied = <<>>
  /\ p_queries = [plan |-> 0, file |-> 0]
  /\ p_result = PendingResult

IdleExec ==
  /\ a_pc = "idle"
  /\ a_batch = <<>>
  /\ a_results = <<>>
  /\ a_disk = {}
  /\ a_memory = {}
  /\ a_commands = <<>>
  /\ a_return = <<>>

IdleStream ==
  /\ g_config = [p \in {"local", "gemini", "vscode"} |->
                   [active |-> FALSE, models |-> 0, active_models |-> {}]]
  /\ g_pc = "idle"
  /\ g_prov = 1
  /\ g_model = 1
  /\ g_calls = <<>>
  /\ g_chunks = <<>>

IdleMemory ==
  /\ m_pc = [w \in {1, 2} |-> "idle"]
  /\ m_store = [exists |-> FALSE, files |-> [p \in {"a.py", "b.py"} |-> [content |-> "", time |-> 0]]]
  /\ m_memory = [w \in {1, 2} |-> [p \in {"a.py", "b.py"} |-> [content |-> "", time |-> 0]]]
  /\ m_clock = 0
  /\ m_written = {}
  /\ m_saves = <<>>
  /\ m_loadedAt = [w \in {1, 2} |-> 0]

IdleTerminal ==
  /\ x_pipe = [s \in {"stdout", "stderr"} |-> 0]
  /\ x_exited = FALSE
  /\ x_reader = [s \in {"stdout", "stderr"} |-> "idle"]
  /\ x_queue = <<>>
  /\ x_consumer = "idle"
  /\ x_yielded = <<>>

IdleFactory ==
  /\ f_pc = "idle"
  /\ f_instance = [made |-> FALSE, llm |-> "", project_path |-> ""]
  /\ f_calls = <<>>
  /\ f_returned = [made |-> FALSE, llm |-> "", project_path |-> ""]

QueryInit ==
  /\ IdleSan
  /\ IdleParse
  /\ IdleJson
  /\ IdlePlan
  /\ IdleExec
  /\ IdleStream
  /\ IdleMemory
  /\ IdleTerminal
  /\ IdleFactory
  /\ config \in [{"local", "gemini", "vscode"} -> ProviderConfigs]
  /\ q_pc = "loop"
  /\ q_prov = 1
  /\ q_model = 1
  /\ q_calls = <<>>
  /\ q_seen = {}
  /\ q_firstOk = 0
  /\ q_result = [kind |-> "pending", from |-> 0]
  /\ q_raw = 0

\* Lines 178-185: "continue" of the provider loop.
SkipProvider ==
  /\ q_pc = "loop"
  /\ q_prov <= Len(providers_order)
  /\ ProviderSkipped(providers_order[q_prov])
  /\ q_prov' = q_prov + 1
  /\ q_model' = 1
  /\ UNCHANGED <<config, q_pc, q_calls, q_seen, q_firstOk, q_result, q_raw>>
  /\ UNCHANGED notQueryVars

\* A loop that stays on the candidate that failed.
RetryCandidate(name) == q_model' = q_model /\ q_prov' = q_prov

\* Advance the model loop, and the provider loop at the end of the models.
NextCandidate(name) ==
  IF q_model < Len(CandidateModels(config[name]))
    THEN q_model' = q_model + 1 /\ q_prov' = q_prov
    ELSE q_model' = 1 /\ q_prov' = q_prov + 1

\* Lines 188-220: one iteration of the model loop: the adapter is called and
\* its response is returned, or the failure is logged and the loop goes on.
TryCandidate ==
  /\ q_pc = "loop"
  /\ q_prov <= Len(providers_order)
  /\ LET name == providers_order[q_prov]
         model == CandidateModels(config[name])[q_model]
     IN /\ ~ProviderSkipped(name)
        /\ \E outcome \in AdapterOutcomes(name) :
             /\ q_calls' = Append(q_calls, [provider |-> name, model |-> model])
             /\ q_seen' = q_seen \cup {outcome}
             /\ q_firstOk' = IF q_firstOk = 0 /\ outcome \in {"text", "parse_raise"}
                               THEN Len(q_calls) + 1 ELSE q_firstOk
             /\ q_raw' = IF outcome \in {"text", "error_text", "parse_raise"}
                           THEN Len(q_calls) + 1 ELSE q_raw
             /\ IF Returned(outcome)
                  THEN /\ q_pc' = "done"
                       /\ q_result' = [kind |-> outcome, from |-> Len(q_calls) + 1]
                       /\ UNCHANGED <<q_prov, q_model>>
                  ELSE IF Raises(outcome) /\ ~Caught(outcome)
                    THEN /\ q_pc' = "done"
                         /\ q_result' = [kind |-> "escaped", from |-> Len(q_calls) + 1]
                         /\ UNCHANGED <<q_prov, q_model>>
                    ELSE /\ NextCandidate(name)
                         /\ UNCHANGED <<q_pc, q_result>>
  /\ UNCHANGED config
  /\ UNCHANGED notQueryVars

\* Lines 222-224: every provider has been gone through: return "".
Exhausted ==
  /\ q_pc = "loop"
  /\ q_prov > Len(providers_order)
  /\ q_pc' = "done"
  /\ q_result' = [kind |-> "sentinel", from |-> 0]
  /\ UNCHANGED <<config, q_prov, q_model, q_calls, q_seen, q_firstOk, q_raw>>
  /\ UNCHANGED notQueryVars

QueryNext == SkipProvider \/ TryCandidate \/ Exhausted

SpecQuery == QueryInit /\ [][QueryNext]_vars

(***************************************************************************)
(* Claims about execute_query                                              *)
(***************************************************************************)

\* C1: as soon as one candidate has returned a non-empty, non-error
\* response, that call is the last one made and its response is what the
\* query returns.
C1_ShortCircuit ==
  q_firstOk # 0 =>
    /\ Len(q_calls) = q_firstOk
    /\ q_pc = "done"
    /\ q_result = [kind |-> "text", from |-> q_firstOk]

\* The case of C1 on which the code differs: a candidate answered with a
\* non-empty response and a later candidate was invoked all the same.
C1_LaterCandidateInvoked ==
  /\ q_firstOk # 0
  /\ Len(q_calls) > q_firstOk
  /\ q_pc = "done"
  /\ q_result.from # q_firstOk

AllCallsFailed == q_seen \subseteq {"raise", "empty"}

\* C2: when every candidate that was tried raised or returned an empty
\* result, the finished query has returned the failure sentinel "" (and so
\* no exception has left execute_query).
C2_AllFailSentinel ==
  (q_pc = "done" /\ AllCallsFailed) => q_result = [kind |-> "sentinel", from |-> 0]

\* A finished query in which two candidates failed, one of them by raising.
C2_Witness ==
  /\ q_pc = "done"
  /\ AllCallsFailed
  /\ Len(q_calls) >= 2
  /\ q_seen = {"raise", "empty"}
  /\ q_result.kind = "sentinel"

(***************************************************************************)
(* sanitize_plan (src/agent_utils.py)                                      *)
(***************************************************************************)

\* Line 16: the plan a non-dict argument is replaced by.
GenericPlan ==
  Dict([k \in {"description", "files", "steps"} |->
          CASE k = "description" -> Str("Generic plan")
            [] k = "files" -> Dict([c \in {"create", "modify"} |-> List(<<>>)])
            [] k = "steps" -> List(<<>>)])

\* Lines 21 and 23: {"create": [], "modify": []}
EmptyFiles == Dict([c \in {"create", "modify"} |-> List(<<>>)])

\* The texts of the model. Of the file names none is a substring of another
\* one, so that Python's "x in s" on two of them is their equality.
CreateDescription == "Create 'x.py'"
HasDot(name) == name \in {"a.py", "b.py", "x.py", "code.py"}            \* "." in name
InString(x, s) == x = s                                         \* x in s

\* Line 48: the re.search for a quoted name in the description: group(1),
\* or "" when the description quotes no name.
QuotedName(description) == IF description = CreateDescription THEN "x.py" ELSE ""

\* Line 66: description.lower().startswith("creat")
StartsWithCreat(description) == description = CreateDescription

\* Python's "x in c": [raised, b]. A list is searched by equality; a string
\* takes only a string on the left (TypeError otherwise); None is no container.
In(x, c) ==
  CASE c.t = "list" -> [raised |-> FALSE, b |-> \E i \in 1..Len(c.xs) : c.xs[i] = x]
    [] c.t = "str" -> IF x.t = "str" THEN [raised |-> FALSE, b |-> InString(x.s, c.s)]
                                     ELSE [raised |-> TRUE, b |-> FALSE]
    [] OTHER -> [raised |-> TRUE, b |-> FALSE]

\* Lines 37 and 72: "for step in plan_data['steps']": the items the loop
\* visits. A list gives its items, a string its characters (the model's
\* string has one), None raises TypeError.
StepItems(steps) ==
  CASE steps.t = "list" -> Ok(steps.xs)
    [] steps.t = "str" -> Ok(<<Str(steps.s)>>)
    [] OTHER -> Raise

\* Lines 58-69: the action given to a step that has none.
InferAction(step, files) ==
  LET file == Get(step, "file")
      description == Get(step, "description")
      inCreate == In(file, Get(files, "create"))
      inModify == In(file, Get(files, "modify"))
  IN IF inCreate.raised THEN Raise
     ELSE IF inCreate.b THEN Ok(Put(step, "action", Str("create")))
     ELSE IF inModify.raised THEN Raise
     ELSE IF inModify.b THEN Ok(Put(step, "action", Str("modify")))
     ELSE IF file.t # "str" THEN Raise                    \* "." not in None
     ELSE IF ~HasDot(file.s) THEN Ok(Put(step, "action", Str("create")))
     ELSE IF description.t # "str" THEN Raise             \* None.lower()
     ELSE IF StartsWithCreat(description.s)
            THEN Ok(Put(step, "action", Str("create")))
            ELSE Ok(Put(step, "action", Str("modify")))

\* Lines 38-69: the body of the first loop on one step.
FixStep(step, files) ==
  IF ~IsDict(step) THEN Ok(step)                                   \* continue
  ELSE
    LET s1 == IF Has(step, "description") THEN step
              ELSE Put(step, "description", Str("Implementation step"))
        description == Get(s1, "description")
    IN IF ~Has(s1, "file") /\ description.t # "str" THEN Raise     \* re.search(.., None)
       ELSE
         LET s2 == IF Has(s1, "file") THEN s1
                   ELSE Put(s1, "file",
                            Str(IF QuotedName(description.s) # ""
                                  THEN QuotedName(description.s) ELSE "code.py"))
         IN IF Has(s2, "action") THEN Ok(s2) ELSE InferAction(s2, files)

AppendAlways(x, c) == [raised |-> FALSE, b |-> FALSE]

\* Lines 76 and 78: "file_name not in plan_data['files'][...]", the test
\* that guards the append.
AlreadyListed(x, c) == In(x, c)

\* Lines 72-79: the second loop, from step i on; files is plan_data["files"].
RECURSIVE AddFiles(_, _, _)
AddFiles(items, i, files) ==
  IF i > Len(items) THEN Ok(files)
  ELSE
    LET step == items[i] IN
    IF ~IsDict(step) THEN Raise                                    \* step.get
    ELSE
      LET file_name == IF Has(step, "file") THEN Get(step, "file") ELSE Str("")
          action == IF Has(step, "action") THEN Get(step, "action") ELSE Str("")
          list == IF action = Str("create") THEN "create"
                  ELSE IF action = Str("modify") THEN "modify" ELSE "none"
      IN IF list = "none" THEN AddFiles(items, i + 1, files)
         ELSE
           LET listed == AlreadyListed(file_name, Get(files, list)) IN
           IF listed.raised THEN Raise
           ELSE IF listed.b THEN AddFiles(items, i + 1, files)
           ELSE IF Get(files, list).t # "list" THEN Raise          \* str.append
           ELSE AddFiles(items, i + 1,
                         Put(files, list, List(Append(Get(files, list).xs, file_name))))

\* Lines 20-28: the "files" object after the structure has been ensured.
EnsureFiles(plan_data) ==
  LET f0 == IF Has(plan_data, "files") /\ IsDict(Get(plan_data, "files"))
              THEN Get(plan_data, "files") ELSE EmptyFiles
      f1 == IF Has(f0, "create") THEN f0 ELSE Put(f0, "create", List(<<>>))
  IN IF Has(f1, "modify") THEN f1 ELSE Put(f1, "modify", List(<<>>))

\* sanitize_plan(plan_data): the plan it returns, or Raise.
sanitize_plan(plan_data) ==
  IF ~IsDict(plan_data) THEN Ok(GenericPlan)
  ELSE
    LET files == EnsureFiles(plan_data)
        p1 == Put(plan_data, "files", files)
        p2 == IF Has(p1, "steps") THEN p1 ELSE Put(p1, "steps", List(<<>>))
        items == StepItems(Get(p2, "steps"))
    IN IF items.raised THEN Raise
       ELSE
         LET fixed == [i \in 1..Len(items.v) |-> FixStep(items.v[i], files)] IN
         IF \E i \in 1..Len(items.v) : fixed[i].raised THEN Raise
         ELSE
           LET steps == [i \in 1..Len(items.v) |-> fixed[i].v]
               p3 == IF Get(p2, "steps").t = "list"
                       THEN Put(p2, "steps", List(steps)) ELSE p2
               added == AddFiles(steps, 1, files)
           IN IF added.raised THEN Raise ELSE Ok(Put(p3, "files", added.v))

(***************************************************************************)
(* The arguments sanitize_plan is applied to.                              *)
(***************************************************************************)
\* The object that has the keys of v whose value is not Absent.
Obj(keys, v) == Dict([k \in {x \in keys : v[x] # Absent} |-> v[k]])

\* A step: an object with any of description, file, action absent, null or
\* a string; or an entry that is no object.
StepOf(f, a, d) ==
  Obj({"file", "action", "description"}, [file |-> f, action |-> a, description |-> d])

StepDicts ==
  { StepOf(f, a, Absent) : f \in {Absent, Str("a.py")}, a \in {Absent, Str("create")} }
  \cup { StepOf(Str("a.py"), a, Absent) : a \in {Str("modify"), Str("delete"), Null} }
  \cup { StepOf(f, Absent, Absent) : f \in {Str("b"), Null} }
  \cup { StepOf(Null, Str("create"), Absent) }
  \cup { StepOf(f, Absent, d) : f \in {Absent, Str("a.py")},
                                d \in {Str(CreateDescription), Null} }

StepInputs == StepDicts \cup {Str("x")}

RECURSIVE SeqsUpTo(_, _)
SeqsUpTo(S, n) ==
  IF n = 0 THEN {<<>>}
  ELSE LET shorter == SeqsUpTo(S, n - 1)
       IN shorter \cup {Append(q, x) : q \in {r \in shorter : Len(r) = n - 1}, x \in S}

\* "steps": absent, null, a string, or a list of steps
StepsInputs == {Absent, Null, Str("x")} \cup {List(q) : q \in SeqsUpTo(StepInputs, MaxSteps)}

\* "files.create" / "files.modify": absent, null, a list, or a bare name
FileListInputs == {Absent, Null, List(<<>>), List(<<Str("a.py")>>), Str("a.py")}
ModifyInputs == {Absent, Null, List(<<Str("a.py")>>)}

\* "files": absent, not an object, or an object
FilesInputs ==
  {Absent, Null}
  \cup { Obj({"create", "modify"}, [create |-> c, modify |-> m]) :
           c \in FileListInputs, m \in ModifyInputs }

PlanInputs ==
  {Null, List(<<>>), Str("x")}
  \cup { Obj({"description", "files", "steps"}, [description |-> d, files |-> f, steps |-> st]) :
           d \in {Absent, Str("d")}, f \in FilesInputs, st \in StepsInputs }

SanInit ==
  /\ IdleQuery
  /\ IdleParse
  /\ IdleJson
  /\ IdlePlan
  /\ IdleExec
  /\ IdleStream
  /\ IdleMemory
  /\ IdleTerminal
  /\ IdleFactory
  /\ s_pc = "in"
  /\ s_in \in PlanInputs
  /\ s_out1 = Ok(Null)
  /\ s_out2 = Ok(Null)

\* sanitize_plan(plan_data)
Sanitize ==
  /\ s_pc = "in"
  /\ s_pc' = "once"
  /\ s_out1' = sanitize_plan(s_in)
  /\ UNCHANGED <<s_in, s_out2>>
  /\ UNCHANGED notSanVars

\* sanitize_plan(sanitize_plan(plan_data)): the second call, on the plan
\* the first one returned.
SanitizeAgain ==
  /\ s_pc = "once"
  /\ ~s_out1.raised
  /\ s_pc' = "twice"
  /\ s_out2' = sanitize_plan(s_out1.v)
  /\ UNCHANGED <<s_in, s_out1>>
  /\ UNCHANGED notSanVars

SanNext == Sanitize \/ SanitizeAgain

SpecSan == SanInit /\ [][SanNext]_vars

(***************************************************************************)
(* Claims about sanitize_plan                                              *)
(***************************************************************************)
OutFiles == Get(s_out1.v, "files")
OutSteps == IF Get(s_out1.v, "steps").t = "list" THEN Get(s_out1.v, "steps").xs ELSE <<>>
InSteps ==
  IF IsDict(s_in) /\ Has(s_in, "steps") /\ Get(s_in, "steps").t = "list"
    THEN Get(s_in, "steps").xs ELSE <<>>
ListHas(c, x) == c.t = "list" /\ \E i \in 1..Len(c.xs) : c.xs[i] = x
HasValue(d, k) == Has(d, k) /\ Get(d, k) # Null

\* C3: sanitize_plan is idempotent: applied to a plan it returned, it
\* returns that same plan (description, steps and files lists unchanged).
C3_Idempotent == s_pc = "twice" => s_out2 = s_out1

\* A plan that the first call had to repair (two steps, a file added to
\* files.create) and that went through the second call.
C3_Witness ==
  /\ s_pc = "twice"
  /\ IsDict(s_in)
  /\ s_out1.v # s_in
  /\ Len(OutSteps) >= 2
  /\ Get(OutFiles, "create").t = "list"
  /\ Len(Get(OutFiles, "create").xs) >= 1
  /\ ~ListHas(Get(EnsureFiles(s_in), "create"), Get(OutFiles, "create").xs[1])

\* C4: in the plan sanitize_plan returns, files.create and files.modify are
\* both present and both lists.
C4_FilesAreLists ==
  (s_pc = "once" /\ ~s_out1.raised) =>
    /\ Has(OutFiles, "create") /\ Get(OutFiles, "create").t = "list"
    /\ Has(OutFiles, "modify") /\ Get(OutFiles, "modify").t = "list"

\* The case of C4 on which the code differs: files.create was given as null
\* and is null in the plan returned.
C4_NullKept ==
  /\ s_pc = "once"
  /\ ~s_out1.raised
  /\ IsDict(s_in) /\ Has(s_in, "files") /\ IsDict(Get(s_in, "files"))
  /\ Has(Get(s_in, "files"), "create") /\ Get(Get(s_in, "files"), "create") = Null
  /\ Get(OutFiles, "create") = Null

\* The step out is the step in with, at most, keys added to it.
StepKept(in, out) ==
  IF IsDict(in)
    THEN /\ IsDict(out)
         /\ \A k \in DOMAIN in.kv : Has(out, k) /\ Get(out, k) = Get(in, k)
    ELSE out = in

\* C5: sanitize_plan returns on every argument, and the steps of the plan
\* returned are the steps given, in their order.
C5_TotalKeepsSteps ==
  s_pc = "once" =>
    /\ ~s_out1.raised
    /\ Len(OutSteps) = Len(InSteps)
    /\ \A i \in 1..Len(InSteps) : StepKept(InSteps[i], OutSteps[i])

\* The case of C5 on which the code differs: a steps list with an entry that
\* is no object makes the call raise.
C5_RaisedOnNonObjectStep ==
  /\ s_pc = "once"
  /\ s_out1.raised
  /\ Len(InSteps) >= 1
  /\ \E i \in 1..Len(InSteps) : ~IsDict(InSteps[i])

\* C6: in the plan returned every step has a file and an action, a step
\* with action create has its file in files.create and a step with action
\* modify has its file in files.modify.
C6_StepsReflected ==
  (s_pc = "once" /\ ~s_out1.raised) =>
    \A i \in 1..Len(OutSteps) :
      LET step == OutSteps[i] IN
      /\ IsDict(step)
      /\ HasValue(step, "file")
      /\ HasValue(step, "action")
      /\ Get(step, "action") = Str("create") => ListHas(Get(OutFiles, "create"), Get(step, "file"))
      /\ Get(step, "action") = Str("modify") => ListHas(Get(OutFiles, "modify"), Get(step, "file"))

\* The case of C6 on which the code differs: a step given with "file": null
\* is returned with no file.
C6_NullFileKept ==
  /\ s_pc = "once"
  /\ ~s_out1.raised
  /\ \E i \in 1..Len(OutSteps) :
       Has(OutSteps[i], "file") /\ Get(OutSteps[i], "file") = Null

(***************************************************************************)
(* parse_plan_response (src/agent_utils.py)                                *)
(*                                                                         *)
(* A response is a sequence of lines, joined by "\n". The lines:           *)
(*   "w"     hello world                                                   *)
(*   "add"   Please add 'x.py' here                                        *)
(*   "upd"   Then update 'a.py'                                            *)
(*   "step"  Step 1: create b.py                                           *)
(*   "act"   Action 2: tidy up                                             *)
(*   "deep"  an array nested deeper than the interpreter's recursion limit *)
(*   "o1"    {"description": "d", "steps": [{"file": "a.py"}]}             *)
(*   "f"     a bare fence, "fj" a fence tagged json, "fp" a fence tagged   *)
(*           python                                                        *)
(* The pieces a response is made of are these lines and two whole blocks:  *)
(*   "blk"   a fenced python block, "jblk" a fenced json block holding o1  *)
(***************************************************************************)
Pieces == {"w", "add", "upd", "step", "act", "deep", "o1", "f", "blk", "jblk"}

PieceLines(piece) ==
  CASE piece = "blk" -> <<"fp", "w", "f">>
    [] piece = "jblk" -> <<"fj", "o1", "f">>
    [] OTHER -> <<piece>>

RECURSIVE TextLines(_)
TextLines(pieces) ==
  IF pieces = <<>> THEN <<>> ELSE PieceLines(Head(pieces)) \o TextLines(Tail(pieces))

\* A string given by the lines it is made of.
Text(lines) == [t |-> "text", lines |-> lines]

\* The value the line o1 is the JSON text of.
ObjO1 ==
  Dict([k \in {"description", "steps"} |->
          IF k = "description" THEN Str("d")
          ELSE List(<<Dict([f \in {"file"} |-> Str("a.py")])>>)])

\* json.loads(s) on a text of these lines: the value of the one object the
\* text is; RecursionError on a text that opens with the deep array (which
\* is no json.JSONDecodeError); json.JSONDecodeError on every other text.
\* "py" is the tag of a python fence, left at the head of the fenced text.
json_loads(lines) ==
  IF lines # <<>> /\ lines[1] = "deep" THEN [kind |-> "error", v |-> Null]
  ELSE IF lines = <<"o1">> THEN [kind |-> "value", v |-> ObjO1]
  ELSE [kind |-> "decode_error", v |-> Null]

IsFence(line) == line \in {"f", "fj", "fp"}

\* Line 101: which fence opens the block that re.search matches: the search
\* goes from left to right and the tag is optional, so it is the first
\* fence of the text, whatever its tag.
OpensBlock(lines, i) == IsFence(lines[i]) /\ \A j \in 1..(i - 1) : ~IsFence(lines[j])

\* Line 101: the re.search for a fenced block: group(1) is what lies between
\* the opening fence (and its json tag, if any) and the next fence.
json_match(lines) ==
  LET fences == {i \in 1..Len(lines) : IsFence(lines[i])}
      opening == {i \in fences : OpensBlock(lines, i) /\ \E j \in fences : j > i}
  IN IF opening = {} THEN [found |-> FALSE, group |-> <<>>]
     ELSE LET i == CHOOSE x \in opening : \A y \in opening : x <= y
              j == CHOOSE x \in fences : x > i /\ \A y \in fences : y > i => x <= y
          IN [found |-> TRUE,
              group |-> (IF lines[i] = "fp" THEN <<"py">> ELSE <<>>) \o SubSeq(lines, i + 1, j - 1)]

\* Line 119: the names quoted after Create or Add on a line.
create_matches(lines) ==
  LET hits == SelectSeq(lines, LAMBDA l : l = "add")
  IN [i \in 1..Len(hits) |-> Str("x.py")]

\* Line 122: the names quoted after Modify, Update or Edit on a line.
modify_matches(lines) ==
  LET hits == SelectSeq(lines, LAMBDA l : l = "upd")
  IN [i \in 1..Len(hits) |-> Str("a.py")]

IsStepLine(line) == line \in {"step", "act"}

\* Line 127: group(1) of the step match that starts at line i: the text
\* from the marker to the next marker, or to the end.
StepText(lines, i) ==
  LET later == {j \in (i + 1)..Len(lines) : IsStepLine(lines[j])}
      last == IF later = {} THEN Len(lines)
              ELSE (CHOOSE j \in later : \A k \in later : j <= k) - 1
  IN SubSeq(lines, i, last)

\* Line 131: step_text.split('\n')[0].strip()
FirstLine(step_text) == IF step_text[1] = "step" THEN "create b.py" ELSE "tidy up"

\* Line 134: the file name of the step: group(1) of file_match, "" without
\* a match.
StepFileName(step_text) == IF step_text[1] = "step" THEN "b.py" ELSE ""

\* Lines 142 and 147: "create" in step_text.lower()
MentionsCreate(step_text) == \E k \in 1..Len(step_text) : step_text[k] = "step"

SeqHas(xs, x) == \E k \in 1..Len(xs) : xs[k] = x

\* Lines 129-154: the loop over the step matches, from line i on.
RECURSIVE ExtractSteps(_, _, _, _, _)
ExtractSteps(lines, i, files_create, files_modify, steps) ==
  IF i > Len(lines)
    THEN [files_create |-> files_create, files_modify |-> files_modify, steps |-> steps]
  ELSE IF ~IsStepLine(lines[i])
    THEN ExtractSteps(lines, i + 1, files_create, files_modify, steps)
  ELSE
    LET step_text == StepText(lines, i)
        file_name == StepFileName(step_text)
        fresh == /\ file_name # ""
                 /\ ~SeqHas(files_create, Str(file_name))
                 /\ ~SeqHas(files_modify, Str(file_name))
        action == IF MentionsCreate(step_text) THEN "create" ELSE "modify"
        step == Dict([k \in {"description", "file", "action", "overview"} |->
                        CASE k = "description" -> Str(FirstLine(step_text))
                          [] k = "file" -> Str(file_name)
                          [] k = "action" -> Str(action)
                          [] k = "overview" -> Text(step_text)])
    IN ExtractSteps(lines, i + 1,
         IF fresh /\ MentionsCreate(step_text)
           THEN Append(files_create, Str(file_name)) ELSE files_create,
         IF fresh /\ ~MentionsCreate(step_text)
           THEN Append(files_modify, Str(file_name)) ELSE files_modify,
         Append(steps, step))

\* Lines 110-163: the plan_data built by the regular expressions. None of
\* the lines has "Plan:" or "Implementation:", so the description is the
\* default one.
RegexPlan(lines) ==
  LET x == ExtractSteps(lines, 1, create_matches(lines), modify_matches(lines), <<>>)
  IN Dict([k \in {"description", "files", "steps"} |->
             CASE k = "description" -> Str("Implementation plan")
               [] k = "files" -> Dict([c \in {"create", "modify"} |->
                                         IF c = "create" THEN List(x.files_create)
                                                         ELSE List(x.files_modify)])
               [] k = "steps" -> List(x.steps)])

\* Lines 168-172: the plan returned when the third strategy raises.
FailedPlan ==
  Dict([k \in {"description", "files", "steps"} |->
          CASE k = "description" -> Str("Failed to parse plan")
            [] k = "files" -> EmptyFiles
            [] k = "steps" -> List(<<>>)])

\* parse_plan_response(response): the plan it returns, or Raise. The two
\* try blocks around json.loads catch json.JSONDecodeError only.
parse_plan_response(lines) ==
  LET whole == json_loads(lines) IN
  IF whole.kind = "value" THEN sanitize_plan(whole.v)
  ELSE IF whole.kind = "error" THEN Raise
  ELSE
    LET m == json_match(lines)
        fenced == json_loads(m.group)
    IN IF m.found /\ fenced.kind = "value" THEN sanitize_plan(fenced.v)
       ELSE IF m.found /\ fenced.kind = "error" THEN Raise
       ELSE LET r == sanitize_plan(RegexPlan(lines))
            IN IF r.raised THEN Ok(FailedPlan) ELSE r

ParseInit ==
  /\ IdleQuery
  /\ IdleSan
  /\ IdleJson
  /\ IdlePlan
  /\ IdleExec
  /\ IdleStream
  /\ IdleMemory
  /\ IdleTerminal
  /\ IdleFactory
  /\ t_pc = "in"
  /\ t_text \in SeqsUpTo(Pieces, MaxPieces)
  /\ t_out = Ok(Null)

\* parse_plan_response(response)
ParsePlan ==
  /\ t_pc = "in"
  /\ t_pc' = "done"
  /\ t_out' = parse_plan_response(TextLines(t_text))
  /\ UNCHANGED t_text
  /\ UNCHANGED notParseVars

ParseNext == ParsePlan

SpecParse == ParseInit /\ [][ParseNext]_vars

(***************************************************************************)
(* Claims about parse_plan_response                                        *)
(***************************************************************************)
ParsedLines == TextLines(t_text)
PlanList(plan, path) ==
  IF path = "steps" THEN Get(plan, "steps").xs ELSE Get(Get(plan, "files"), path).xs

\* The response is no JSON text and holds no fence.
Unparsable ==
  /\ json_loads(ParsedLines).kind # "value"
  /\ \A i \in 1..Len(ParsedLines) : ~IsFence(ParsedLines[i])

\* C7: on a response that is no JSON and holds no fenced block,
\* parse_plan_response does not raise and returns a plan whose steps,
\* files.create and files.modify are empty.
C7_GarbageGivesEmptyPlan ==
  (t_pc = "done" /\ Unparsable) =>
    /\ ~t_out.raised
    /\ PlanList(t_out.v, "steps") = <<>>
    /\ PlanList(t_out.v, "create") = <<>>
    /\ PlanList(t_out.v, "modify") = <<>>

\* The case of C7 on which the code differs: a response that is no JSON and
\* holds no fence, on which the call raised.
C7_RaisedOnGarbage ==
  /\ t_pc = "done"
  /\ Unparsable
  /\ t_text # <<>>
  /\ t_out.raised

\* The response holds a fenced json block whose content is valid JSON.
HasJsonBlock == \E i \in 1..Len(t_text) : t_text[i] = "jblk"

\* C8: on a response that holds a valid JSON object in a fenced json block,
\* parse_plan_response returns sanitize_plan of that object, whatever text
\* or other fenced blocks surround the block.
C8_FencedJsonExtracted ==
  (t_pc = "done" /\ HasJsonBlock) => t_out = sanitize_plan(ObjO1)

\* The case of C8 on which the code differs: a fenced python block comes
\* before the json block, and the plan returned is not the one of the json
\* block.
C8_OtherBlockFirst ==
  /\ t_pc = "done"
  /\ HasJsonBlock
  /\ Len(t_text) >= 2 /\ t_text[1] = "blk" /\ t_text[2] = "jblk"
  /\ ~t_out.raised
  /\ t_out # sanitize_plan(ObjO1)
  /\ Get(t_out.v, "description") = Str("Implementation plan")

(***************************************************************************)
(* LLMHandler._parse_json_with_triple_quotes (src/llm_handler.py)          *)
(*                                                                         *)
(* A response is a sequence of tokens: the punctuation of JSON, the        *)
(* literal null, an ordinary string "s" and a triple-quoted span """s""".  *)
(* The content of a span has no quote in it, so that the spans the regular *)
(* expression of line 356 finds are these tokens.                          *)
(***************************************************************************)
Punct(c) == [q |-> c, s |-> ""]
NullTok == [q |-> "null", s |-> ""]
StrTok(s) == [q |-> "str", s |-> s]
SpanTok(s) == [q |-> "span", s |-> s]

\* Line 347: placeholder_pattern.format(n)
placeholder_pattern(n) == "__TRIPLE_QUOTE_CONTENT_" \o ToString(n) \o "_PLACEHOLDER__"

\* json.loads on a sequence of tokens: [ok, v, next], the value that starts
\* at token i and the position after it. A span is no JSON: an empty string
\* with a string right behind it.
RECURSIVE ParseValue(_, _)
RECURSIVE ParseElements(_, _, _)
RECURSIVE ParseMembers(_, _, _)

ParseFail == [ok |-> FALSE, v |-> Null, next |-> 0]

ParseValue(toks, i) ==
  IF i > Len(toks) THEN ParseFail
  ELSE CASE toks[i].q = "str" -> [ok |-> TRUE, v |-> Str(toks[i].s), next |-> i + 1]
         [] toks[i].q = "null" -> [ok |-> TRUE, v |-> Null, next |-> i + 1]
         [] toks[i].q = "[" ->
              IF i + 1 <= Len(toks) /\ toks[i + 1].q = "]"
                THEN [ok |-> TRUE, v |-> List(<<>>), next |-> i + 2]
                ELSE ParseElements(toks, i + 1, <<>>)
         [] toks[i].q = "{" ->
              IF i + 1 <= Len(toks) /\ toks[i + 1].q = "}"
                THEN [ok |-> TRUE, v |-> Dict(<<>>), next |-> i + 2]
                ELSE ParseMembers(toks, i + 1, Dict(<<>>))
         [] OTHER -> ParseFail

\* The elements of an array from token i on; xs are the ones read so far.
ParseElements(toks, i, xs) ==
  LET e == ParseValue(toks, i) IN
  IF ~e.ok \/ e.next > Len(toks) THEN ParseFail
  ELSE IF toks[e.next].q = "]"
         THEN [ok |-> TRUE, v |-> List(Append(xs, e.v)), next |-> e.next + 1]
  ELSE IF toks[e.next].q = "," THEN ParseElements(toks, e.next + 1, Append(xs, e.v))
  ELSE ParseFail

\* The members of an object from token i on; d holds the ones read so far
\* (a key given twice keeps its last value).
ParseMembers(toks, i, d) ==
  IF i + 1 > Len(toks) \/ toks[i].q # "str" \/ toks[i + 1].q # ":" THEN ParseFail
  ELSE
    LET e == ParseValue(toks, i + 2) IN
    IF ~e.ok \/ e.next > Len(toks) THEN ParseFail
    ELSE IF toks[e.next].q = "}"
           THEN [ok |-> TRUE, v |-> Put(d, toks[i].s, e.v), next |-> e.next + 1]
    ELSE IF toks[e.next].q = "," THEN ParseMembers(toks, e.next + 1, Put(d, toks[i].s, e.v))
    ELSE ParseFail

\* json.loads(text): the value, or ok = FALSE for json.JSONDecodeError.
json_parse(toks) ==
  LET r == ParseValue(toks, 1)
  IN IF r.ok /\ r.next = Len(toks) + 1 THEN r ELSE ParseFail

\* The number of spans before token i: len(placeholders) when the span at i
\* is replaced.
SpansBefore(toks, i) == Cardinality({k \in 1..(i - 1) : toks[k].q = "span"})

\* Lines 349-356: re.sub with replace_triple_quotes: every span becomes an
\* ordinary string that holds a fresh placeholder.
modified_response(toks) ==
  [i \in 1..Len(toks) |->
     IF toks[i].q = "span" THEN StrTok(placeholder_pattern(SpansBefore(toks, i))) ELSE toks[i]]

\* Line 352: the placeholders dictionary, placeholder -> content.
placeholders(toks) ==
  LET spans == {i \in 1..Len(toks) : toks[i].q = "span"}
  IN [name \in {placeholder_pattern(SpansBefore(toks, i)) : i \in spans} |->
        toks[CHOOSE i \in spans : placeholder_pattern(SpansBefore(toks, i)) = name].s]

\* Lines 365 and 371: "isinstance(v, str) and v in placeholders": the entry
\* of a dict or list that is replaced by the content of its placeholder.
RestoreEntry(v, ph) == IF v.t = "str" /\ v.s \in DOMAIN ph THEN Str(ph[v.s]) ELSE v

\* Lines 362-374: restore_placeholders(obj): the values of a dict and the
\* items of a list are replaced or walked into; keys, and an obj that is
\* itself a string, are left as they are.
RECURSIVE restore_placeholders(_, _)
restore_placeholders(obj, ph) ==
  CASE obj.t = "dict" ->
         Dict([k \in DOMAIN obj.kv |-> restore_placeholders(RestoreEntry(obj.kv[k], ph), ph)])
    [] obj.t = "list" ->
         List([i \in 1..Len(obj.xs) |-> restore_placeholders(RestoreEntry(obj.xs[i], ph), ph)])
    [] OTHER -> obj

\* Lines 333-380. The first json.loads succeeds on a text without spans;
\* the second one is given the text with the placeholders.
parse_json_with_triple_quotes(toks) ==
  LET first == json_parse(toks)
      second == json_parse(modified_response(toks))
  IN IF first.ok THEN first.v
     ELSE IF second.ok THEN restore_placeholders(second.v, placeholders(toks))
     ELSE Dict(<<>>)

(***************************************************************************)
(* The responses _parse_json_with_triple_quotes is applied to: an object,  *)
(* a list or a bare value, whole or cut short of its last token.           *)
(***************************************************************************)
SpanContents == {"a\nb", "x"}

KeyTokens == {StrTok("steps"), StrTok("content"), SpanTok("k")}

ValueTexts ==
  {<<StrTok("s")>>, <<NullTok>>}
  \cup {<<SpanTok(c)>> : c \in SpanContents}
  \cup {<<Punct("["), StrTok("s"), Punct(","), SpanTok(c), Punct("]")>> : c \in {"x"}}
  \cup {<<Punct("{"), StrTok("content"), Punct(":"), SpanTok(c), Punct("}")>> : c \in {"a\nb"}}
  \cup {<<Punct("["), Punct("{"), StrTok("content"), Punct(":"), SpanTok(c), Punct("}"), Punct("]")>> :
           c \in {"a\nb"}}

MemberTexts == {<<k, Punct(":")>> \o v : k \in KeyTokens, v \in ValueTexts}

\* The texts of q, joined by commas.
RECURSIVE Joined(_)
Joined(q) ==
  IF q = <<>> THEN <<>>
  ELSE IF Len(q) = 1 THEN q[1]
  ELSE q[1] \o <<Punct(",")>> \o Joined(Tail(q))

WholeTexts ==
  ValueTexts
  \cup {<<Punct("{")>> \o Joined(q) \o <<Punct("}")>> : q \in SeqsUpTo(MemberTexts, MaxMembers)}
  \cup {<<Punct("[")>> \o Joined(q) \o <<Punct("]")>> : q \in SeqsUpTo(ValueTexts, MaxMembers)}

JsonTexts == WholeTexts \cup {SubSeq(w, 1, Len(w) - 1) : w \in WholeTexts}

JsonInit ==
  /\ IdleQuery
  /\ IdleSan
  /\ IdleParse
  /\ IdlePlan
  /\ IdleExec
  /\ IdleStream
  /\ IdleMemory
  /\ IdleTerminal
  /\ IdleFactory
  /\ j_pc = "in"
  /\ j_text \in JsonTexts
  /\ j_out = Null

\* self._parse_json_with_triple_quotes(response)
ParseJson ==
  /\ j_pc = "in"
  /\ j_pc' = "done"
  /\ j_out' = parse_json_with_triple_quotes(j_text)
  /\ UNCHANGED j_text
  /\ UNCHANGED notJsonVars

JsonNext == ParseJson

SpecJson == JsonInit /\ [][JsonNext]_vars

(***************************************************************************)
(* Claims about _parse_json_with_triple_quotes                             *)
(***************************************************************************)
HasSpan(toks) == \E i \in 1..Len(toks) : toks[i].q = "span"

\* The text in which every span is the ordinary string of its content.
SpansAsStrings(toks) ==
  [i \in 1..Len(toks) |-> IF toks[i].q = "span" THEN StrTok(toks[i].s) ELSE toks[i]]

\* Does a placeholder occur in the value, as a string or as a key?
RECURSIVE HoldsPlaceholder(_, _)
HoldsPlaceholder(v, names) ==
  CASE v.t = "str" -> v.s \in names
    [] v.t = "list" -> \E i \in 1..Len(v.xs) : HoldsPlaceholder(v.xs[i], names)
    [] v.t = "dict" -> \E k \in DOMAIN v.kv : k \in names \/ HoldsPlaceholder(v.kv[k], names)
    [] OTHER -> FALSE

\* C9: for a text with triple-quoted spans that is valid JSON once every
\* span is replaced by a quoted placeholder, the value returned is the
\* value of the text with, at the position of every span, the content of
\* the span, and no placeholder is left in it.
C9_RoundTrip ==
  (j_pc = "done" /\ HasSpan(j_text) /\ json_parse(modified_response(j_text)).ok) =>
    /\ j_out = json_parse(SpansAsStrings(j_text)).v
    /\ ~HoldsPlaceholder(j_out, DOMAIN placeholders(j_text))

\* The case of C9 on which the code differs: a span is the key of an object
\* member, and the placeholder is the key in the value returned.
C9_PlaceholderKeyLeft ==
  /\ j_pc = "done"
  /\ json_parse(modified_response(j_text)).ok
  /\ \E i \in 1..(Len(j_text) - 1) : j_text[i].q = "span" /\ j_text[i + 1].q = ":"
  /\ j_out.t = "dict"
  /\ \E k \in DOMAIN j_out.kv : k \in DOMAIN placeholders(j_text)

(***************************************************************************)
(* AgentPlanner.execute_plan_with_preview (src/agent_planner.py), with     *)
(* AgentHandler.explore_codebase and the memory (src/agent_handler.py)     *)
(***************************************************************************)
Files == {"a.py", "b.py"}

OldContent == [kind |-> "old", n |-> 1]       \* what a file holds before the run
StaleContent == [kind |-> "old", n |-> 0]     \* what it held at an earlier run
Code(n) == [kind |-> "code", n |-> n]         \* the code generated for step n
EmptyCode == [kind |-> "empty", n |-> 0]      \* "": the code of a failed query

\* AgentHandler._get_project_structure: what the walk of the project gives,
\* here the files that are there.
ProjectStructure(disk) == [set |-> TRUE, files |-> {f \in Files : disk[f] # NoContent}]

\* AgentHandler.explore_codebase, lines 119-124: the memory after the
\* exploration has read the files in relevant.
ExploredMemory(memory, disk, relevant) ==
  [structure |-> ProjectStructure(disk),
   files |-> [f \in Files |-> IF f \in relevant THEN disk[f] ELSE memory.files[f]]]

\* The steps the LLM puts in a plan.
PlanStep(file, action) ==
  Dict([k \in {"description", "file", "action"} |->
          CASE k = "description" -> Str("d")
            [] k = "file" -> Str(file)
            [] k = "action" -> Str(action)])

PlanSteps == {PlanStep("a.py", "modify"), PlanStep("b.py", "create"), PlanStep("", "modify")}

\* What self.llm.execute_query returns to create_plan: the JSON text of a
\* plan, JSON whose steps are no objects, or the failure sentinel "".
PlanResponses ==
  {[kind |-> "json", v |-> Dict([k \in {"description", "steps"} |->
                                   IF k = "description" THEN Str("d") ELSE List(q)])] :
     q \in SeqsUpTo(PlanSteps, MaxPlanSteps)}
  \cup {[kind |-> "json", v |-> Dict([k \in {"steps"} |-> List(<<Str("x")>>)])]}
  \cup {[kind |-> "sentinel", v |-> Null]}

\* create_plan, line 171: parse_plan_response(response).
ParsedPlan(response) ==
  IF response.kind = "sentinel" THEN parse_plan_response(<<>>)
  ELSE sanitize_plan(response.v)

\* create_plan, lines 173-185: the relevant files that are not among the
\* files to modify are added to them when _is_relevant_to_request says so.
WithRelevantFiles(plan, relevant, is_relevant) ==
  LET files == Get(plan, "files")
      modify == Get(files, "modify").xs
      missing == {f \in relevant : ~SeqHas(modify, Str(f))}
  IN IF is_relevant /\ missing # {}
       THEN Put(plan, "files",
                Put(files, "modify", List(Append(modify, Str(CHOOSE f \in missing : TRUE)))))
       ELSE plan

\* display_plan, lines 244-297: is the plan accepted on this answer? The log
\* window accepts without asking; the session window accepts on "y" only
\* (result is True); the console accepts everything but "n".
PlanAccepted(mode, answer) ==
  CASE mode = "log" -> TRUE
    [] mode = "session" -> answer = "y"
    [] mode = "console" -> answer # "n"

\* generate_and_preview, lines 338-348: is the file accepted on this answer?
\* show_preview and show_diff return True, False or 'edit', and 'edit' is
\* true for "if accepted"; _fallback_preview accepts everything but "n".
PreviewAccepted(mode, answer) ==
  IF mode = "session" THEN answer \in {"y", "e"} ELSE answer # "n"

Answers == {"y", "n", "e", "other"}

PlanStepsOf(plan) == Get(plan, "steps").xs

\* results[file] = code on a dict that keeps the order of insertion.
DictSet(changes, file, code) ==
  IF \E k \in 1..Len(changes) : changes[k].file = file
    THEN [k \in 1..Len(changes) |->
            IF changes[k].file = file THEN [file |-> file, content |-> code] ELSE changes[k]]
    ELSE Append(changes, [file |-> file, content |-> code])

KeepFirstChange(changes, file, code) ==
  IF \E k \in 1..Len(changes) : changes[k].file = file THEN changes
  ELSE Append(changes, [file |-> file, content |-> code])

\* Lines 348-349: "if accepted: results[step.get('file')] = code".
KeepChange(changes, file, code) == DictSet(changes, file, code)

PlanInit ==
  /\ IdleQuery
  /\ IdleSan
  /\ IdleParse
  /\ IdleJson
  /\ IdleExec
  /\ IdleStream
  /\ IdleMemory
  /\ IdleTerminal
  /\ IdleFactory
  /\ p_mode \in {"log", "session", "console"}
  /\ p_pc = "CREATING_PLAN"
  /\ p_disk \in {[f \in Files |-> NoContent],
                 [f \in Files |-> IF f = "a.py" THEN OldContent ELSE NoContent]}
  /\ \E loaded \in BOOLEAN, c \in {NoContent, StaleContent} :
       /\ p_memory = IF loaded
                       THEN [structure |-> ProjectStructure(p_disk),
                             files |-> [f \in Files |-> IF f = "a.py" THEN c ELSE NoContent]]
                       ELSE FreshMemory
       /\ p_saved = IF loaded THEN SavedMemory(p_memory) ELSE NoMemoryFile
       /\ ~loaded => c = NoContent
  /\ p_start = [disk |-> p_disk, memory |-> p_memory, saved |-> p_saved]
  /\ p_plan = Null
  /\ p_step = 1
  /\ p_changes = <<>>
  /\ p_previews = {}
  /\ p_applied = <<>>
  /\ p_queries = [plan |-> 0, file |-> 0]
  /\ p_result = PendingResult

\* A result that reports success.
NoErrorResult == [success |-> TRUE, message |-> "Error executing plan", files_changed |-> <<>>]

\* Lines 605-618: the result of a run that raised.
ErrorResult == [success |-> FALSE, message |-> "Error executing plan", files_changed |-> <<>>]

\* Lines 529-538: create_plan(request): the codebase is explored (and the
\* memory updated and saved), the LLM is asked for a plan and its response
\* is parsed. An exception of parse_plan_response ends the run.
CreatePlan ==
  /\ p_pc = "CREATING_PLAN"
  /\ \E relevant \in SUBSET {f \in Files : p_disk[f] # NoContent},
        response \in PlanResponses,
        is_relevant \in BOOLEAN :
       LET memory == ExploredMemory(p_memory, p_disk, relevant)
           parsed == ParsedPlan(response)
       IN /\ p_memory' = memory
          /\ p_saved' = SavedMemory(memory)                        \* self._save_memory()
          /\ p_queries' = [p_queries EXCEPT !.plan = @ + 1]
          /\ IF parsed.raised
               THEN /\ p_pc' = "FAILED"
                    /\ p_result' = ErrorResult
                    /\ UNCHANGED p_plan
               ELSE IF parsed.v = Dict(<<>>)                        \* "if not plan"
                 THEN /\ p_pc' = "FAILED"
                      /\ p_result' = [success |-> FALSE, message |-> "Failed to create plan",
                                      files_changed |-> <<>>]
                      /\ UNCHANGED p_plan
                 ELSE /\ p_pc' = "AWAITING_PLAN_APPROVAL"
                      /\ p_plan' = WithRelevantFiles(parsed.v, relevant, is_relevant)
                      /\ UNCHANGED p_result
  /\ UNCHANGED <<p_mode, p_disk, p_start, p_step, p_changes, p_previews, p_applied>>
  /\ UNCHANGED notPlanVars

\* Lines 540-546: display_plan(plan): the plan is shown and the user asked;
\* a plan that is not accepted ends the run.
DisplayPlan ==
  /\ p_pc = "AWAITING_PLAN_APPROVAL"
  /\ \E answer \in Answers :
       IF PlanAccepted(p_mode, answer)
         THEN /\ p_pc' = IF PlanStepsOf(p_plan) = <<>> THEN "APPLYING" ELSE "GENERATING_STEPS"
              /\ UNCHANGED p_result
         ELSE /\ p_pc' = "REJECTED"
              /\ p_result' = [success |-> FALSE, message |-> "Plan rejected by user",
                              files_changed |-> <<>>]
  /\ UNCHANGED <<p_mode, p_disk, p_memory, p_saved, p_start, p_plan, p_step, p_changes,
                 p_previews, p_applied, p_queries>>
  /\ UNCHANGED notPlanVars

\* A loop that is left after its first step.
LoopEndsEarly(plan, step) == TRUE

\* Line 303, "for step_idx, step in enumerate(plan.get('steps', []))": the
\* loop is left, and line 351 returns, after the last step of the plan.
LoopEnds(plan, step) == step = Len(PlanStepsOf(plan))

\* generate_and_preview, lines 303-349: one iteration of the loop over the
\* steps: a step without a file is skipped; for the others the LLM is asked
\* for the code, the code is shown and kept when the user accepts it.
GenerateStep ==
  /\ p_pc = "GENERATING_STEPS"
  /\ p_step <= Len(PlanStepsOf(p_plan))
  /\ LET step == PlanStepsOf(p_plan)[p_step]
         file == Get(step, "file").s
     IN IF file = ""
          THEN UNCHANGED <<p_changes, p_previews, p_queries>>
          ELSE \E outcome \in {"text", "sentinel"}, answer \in Answers :
                 LET code == IF outcome = "text" THEN Code(p_step) ELSE EmptyCode
                     accepted == PreviewAccepted(p_mode, answer)
                 IN /\ p_queries' = [p_queries EXCEPT !.file = @ + 1]
                    /\ p_previews' = p_previews \cup
                         {[file |-> file, accepted |-> accepted, edit |-> answer = "e"]}
                    /\ p_changes' = IF accepted THEN KeepChange(p_changes, file, code)
                                                ELSE p_changes
  /\ p_step' = p_step + 1
  /\ p_pc' = IF LoopEnds(p_plan, p_step) THEN "APPLYING" ELSE p_pc
  /\ UNCHANGED <<p_mode, p_disk, p_memory, p_saved, p_start, p_plan, p_applied, p_result>>
  /\ UNCHANGED notPlanVars

\* Lines 551-567: one iteration of the loop over file_changes: the file is
\* written, recorded in the memory and the memory saved; an exception of
\* the write ends the run.
ApplyFile ==
  /\ p_pc = "APPLYING"
  /\ Len(p_applied) < Len(p_changes)
  /\ LET change == p_changes[Len(p_applied) + 1] IN
     \E written \in BOOLEAN :
       IF written
         THEN /\ p_disk' = [p_disk EXCEPT ![change.file] = change.content]
              /\ p_applied' = Append(p_applied, change.file)
              /\ p_memory' = [p_memory EXCEPT !.files[change.file] = change.content]
              /\ p_saved' = SavedMemory(p_memory')
              /\ UNCHANGED <<p_pc, p_result>>
         ELSE /\ p_pc' = "FAILED"
              /\ p_result' = ErrorResult
              /\ UNCHANGED <<p_disk, p_applied, p_memory, p_saved>>
  /\ UNCHANGED <<p_mode, p_start, p_plan, p_step, p_changes, p_previews, p_queries>>
  /\ UNCHANGED notPlanVars

\* Lines 569-603: the result of a run that applied every accepted file.
Finish ==
  /\ p_pc = "APPLYING"
  /\ Len(p_applied) = Len(p_changes)
  /\ p_pc' = "DONE"
  /\ p_result' = [success |-> TRUE, message |-> "Successfully applied changes",
                  files_changed |-> p_applied]
  /\ UNCHANGED <<p_mode, p_disk, p_memory, p_saved, p_start, p_plan, p_step, p_changes,
                 p_previews, p_applied, p_queries>>
  /\ UNCHANGED notPlanVars

PlanNext == CreatePlan \/ DisplayPlan \/ GenerateStep \/ ApplyFile \/ Finish

SpecPlan == PlanInit /\ [][PlanNext]_vars

(***************************************************************************)
(* Claims about execute_plan_with_preview                                  *)
(***************************************************************************)

\* C10: a run that ended with the plan rejected has had no side effect: no
\* project file was written, no memory record was written or changed (in
\* the agent's memory or in the memory file), and no generation query for a
\* file was sent.
C10_RejectedNoSideEffects ==
  p_pc = "REJECTED" =>
    /\ p_disk = p_start.disk
    /\ p_memory = p_start.memory
    /\ p_saved = p_start.saved
    /\ p_queries.file = 0

\* The case of C10 on which the code differs: the plan was rejected, and
\* the memory holds and has saved a record of a file that it did not hold
\* when the run started.
C10_MemoryWrittenBeforeReject ==
  /\ p_pc = "REJECTED"
  /\ p_result.message = "Plan rejected by user"
  /\ p_disk = p_start.disk
  /\ p_queries.file = 0
  /\ \E f \in Files :
       /\ p_start.memory.files[f] = NoContent
       /\ p_memory.files[f] = p_disk[f]
       /\ p_memory.files[f] # NoContent
       /\ p_saved = SavedMemory(p_memory)

Accepted(f) == \E v \in p_previews : v.file = f /\ v.accepted
Rejected(f) == \E v \in p_previews : v.file = f /\ ~v.accepted

\* C11: a file is written only if its preview was accepted, and a file
\* whose preview the user rejected is not written in the run, also when
\* several steps of the plan name the file.
C11_RejectedNotWritten ==
  \A k \in 1..Len(p_applied) : Accepted(p_applied[k]) /\ ~Rejected(p_applied[k])

\* The case of C11 on which the code differs: two steps name the same file,
\* the preview of one was accepted and the preview of the other rejected,
\* and the file has been written.
C11_RejectedFileWritten ==
  /\ p_pc = "DONE"
  /\ \E k \in 1..Len(p_applied) :
       /\ Rejected(p_applied[k])
       /\ Accepted(p_applied[k])
       /\ p_disk[p_applied[k]] # p_start.disk[p_applied[k]]
       /\ Cardinality({i \in 1..Len(PlanStepsOf(p_plan)) :
                         Get(PlanStepsOf(p_plan)[i], "file") = Str(p_applied[k])}) >= 2

\* The steps of the plan that name the file f.
StepsNaming(f) ==
  {i \in 1..Len(PlanStepsOf(p_plan)) : Get(PlanStepsOf(p_plan)[i], "file") = Str(f)}
LastStepNaming(f) == CHOOSE i \in StepsNaming(f) : \A j \in StepsNaming(f) : j <= i

\* C12: in a run that reached DONE with nothing rejected, every file named
\* by a step of the plan has been written, holds the code generated for it
\* (for the last step that names it; the empty code when that query
\* failed), and the memory, in the agent and as saved, has a new record of
\* that file with that content.
C12_AcceptedAllWritten ==
  (p_pc = "DONE" /\ \A f \in Files : ~Rejected(f)) =>
    \A f \in Files :
      StepsNaming(f) # {} =>
        /\ \E k \in 1..Len(p_applied) : p_applied[k] = f
        /\ Cardinality({k \in 1..Len(p_applied) : p_applied[k] = f}) = 1
        /\ p_disk[f] \in {Code(LastStepNaming(f)), EmptyCode}
        /\ p_memory.files[f] = p_disk[f]
        /\ p_memory.files[f] # p_start.memory.files[f]
        /\ p_saved = SavedMemory(p_memory)
        /\ p_result.success
        /\ p_result.files_changed = p_applied

\* A run that reached DONE with every preview accepted, on a plan whose two
\* steps name the same file.
C12_Witness ==
  /\ p_pc = "DONE"
  /\ \A f \in Files : ~Rejected(f)
  /\ StepsNaming("a.py") = {1, 2}
  /\ p_disk["a.py"] = Code(2)
  /\ p_start.disk["a.py"] = OldContent
  /\ p_applied = <<"a.py">>

(***************************************************************************)
(* AgentHandler.execute_request: the batch of actions, and _execute_action *)
(***************************************************************************)

MaxBatch == 3        \* longest "actions" list of an LLM response

Num(n) == [t |-> "int", n |-> n]

\* The eleven types _execute_action dispatches on, lines 918-939.
ActionTypes ==
  {"create_file", "read_file", "edit_file", "run_command", "browse_url",
   "search_web", "analyze_code", "list_directory", "find_files",
   "search_code", "explore_codebase"}

\* dict.get: the value of the key, None when the key is missing.
ActionGet(action, key) == IF Has(action, key) THEN Get(action, key) ELSE Null

\* How an f-string shows the type: "None" for None.
TypeText(action_type) == IF action_type = Null THEN "None" ELSE action_type.s

\* A result: the keys a handler did not set are Absent.
Result(success) ==
  [success |-> success, type |-> Absent, action |-> Absent, path |-> Absent,
   message |-> Absent, error |-> Absent, command |-> Absent,
   return_code |-> Absent, stdout |-> Absent, stderr |-> Absent]

\* What one call did: it returned a result or raised, and what it changed.
Returns(result, wrote, ran) ==
  [raised |-> FALSE, result |-> result, wrote |-> wrote, ran |-> ran]
Raising == [raised |-> TRUE, result |-> Result(FALSE), wrote |-> {}, ran |-> <<>>]

\* A result like the one of the else branch, but reporting success.
UnknownSucceeds(action_type) ==
  [Result(TRUE) EXCEPT !.type = action_type,
                       !.message = Str("Unknown action type: " \o TypeText(action_type))]

\* Lines 940-945: the else branch of the dispatch.
UnknownResult(action_type) ==
  [Result(FALSE) EXCEPT !.type = action_type,
                        !.message = Str("Unknown action type: " \o TypeText(action_type))]

\* _create_file, lines 489-524.  Line 495 is outside the try: joining the
\* project path with None raises TypeError.  written: whether making the
\* directories, writing the file and recording it went through.
_create_file(action, written) ==
  LET path == ActionGet(action, "path")
  IN IF path = Null THEN Raising
     ELSE IF written
       THEN Returns([Result(TRUE) EXCEPT !.action = Str("create_file"),
                                         !.path = path,
                                         !.message = Str("File created: " \o path.s)],
                    {path.s}, <<>>)
       ELSE Returns([Result(FALSE) EXCEPT !.action = Str("create_file"),
                                          !.error = Str("e")],
                    {}, <<>>)

\* What subprocess.run did: it raised before running anything, or the
\* command ran and exited with a return code, its output captured.
ExitCodes == {0, 1, 3}
ProcessOutcomes ==
  {[raised |-> TRUE, returncode |-> 0, stdout |-> "", stderr |-> ""]} \cup
  [raised : {FALSE}, returncode : ExitCodes, stdout : {"", "o"}, stderr : {"", "e"}]

\* A result like the one of line 645, but successful whatever the exit code.
AlwaysSuccess(returncode) == TRUE

\* Line 645: "success": result.returncode == 0
CommandSuccess(returncode) == returncode = 0

\* _run_command, lines 632-659: subprocess.run is inside the try.  With no
\* command, subprocess.run raises TypeError.
_run_command(action, proc) ==
  LET command == ActionGet(action, "command")
  IN IF command = Null \/ proc.raised
       THEN Returns([Result(FALSE) EXCEPT !.action = Str("run_command"),
                                          !.command = command,
                                          !.error = Str("e")],
                    {}, <<>>)
       ELSE Returns([Result(CommandSuccess(proc.returncode)) EXCEPT
                        !.action = Str("run_command"),
                        !.command = command,
                        !.return_code = Num(proc.returncode),
                        !.stdout = Str(proc.stdout),
                        !.stderr = Str(proc.stderr)],
                    {}, <<proc>>)

\* Lines 961-974, the except branch of _execute_action.  Line 965 evaluates
\* traceback.format_exc(), and agent_handler.py does not import traceback:
\* the NameError is not the ImportError line 967 catches, so it leaves
\* _execute_action and the return of line 970 is never reached.
HandlerRaised(action_type) == Raising

\* _execute_action, lines 904-974.  Line 906, action.get, is outside the
\* try: an entry of the list that is no object raises AttributeError.
_execute_action(action, written, proc) ==
  IF ~IsDict(action) THEN Raising
  ELSE LET action_type == ActionGet(action, "type")
           handled ==
             IF action_type = Str("create_file") THEN _create_file(action, written)
             ELSE IF action_type = Str("run_command") THEN _run_command(action, proc)
             ELSE Returns(UnknownResult(action_type), {}, <<>>)
       IN IF handled.raised THEN HandlerRaised(action_type) ELSE handled

\* An entry of the "actions" list: _parse_actions, lines 444-446, returns
\* the list as the LLM wrote it.
Action(type, path, command) ==
  Obj({"type", "path", "command"},
      [k \in {"type", "path", "command"} |->
         IF k = "type" THEN type ELSE IF k = "path" THEN path ELSE command])

ActionInputs ==
  {Action(Str("bogus"), Str("a.py"), Absent),
   Action(Absent, Str("a.py"), Str("cmd")),
   Action(Str("create_file"), Str("a.py"), Absent),
   Action(Str("create_file"), Absent, Absent),
   Action(Str("run_command"), Absent, Str("cmd")),
   Action(Str("run_command"), Absent, Absent),
   Str("x")}

ExecInit ==
  /\ IdleQuery
  /\ IdleSan
  /\ IdleParse
  /\ IdleJson
  /\ IdlePlan
  /\ IdleStream
  /\ IdleMemory
  /\ IdleTerminal
  /\ IdleFactory
  /\ a_pc = "loop"
  /\ a_batch \in SeqsUpTo(ActionInputs, MaxBatch)
  /\ a_results = <<>>
  /\ a_disk = {}
  /\ a_memory = {}
  /\ a_commands = <<>>
  /\ a_return = <<>>

\* Lines 317-325: "if not actions" returns one result of type "info".
NoActions ==
  /\ a_pc = "loop"
  /\ a_batch = <<>>
  /\ a_pc' = "done"
  /\ a_return' = <<[Result(TRUE) EXCEPT !.type = Str("info"),
                      !.message = Str("AI provided information but no specific actions")]>>
  /\ UNCHANGED <<a_batch, a_results, a_disk, a_memory, a_commands>>
  /\ UNCHANGED notExecVars

\* Lines 328-331: one turn of "for action in actions".  An exception that
\* leaves _execute_action leaves execute_request: nothing catches it.
ExecuteAction ==
  /\ a_pc = "loop"
  /\ Len(a_results) < Len(a_batch)
  /\ \E written \in BOOLEAN, proc \in ProcessOutcomes :
       LET i == Len(a_results) + 1
           out == _execute_action(a_batch[i], written, proc)
       IN IF out.raised
            THEN /\ a_pc' = "raised"
                 /\ UNCHANGED <<a_results, a_disk, a_memory, a_commands>>
            ELSE /\ a_pc' = "loop"
                 /\ a_results' = Append(a_results, out.result)
                 /\ a_disk' = a_disk \cup out.wrote
                 /\ a_memory' = a_memory \cup out.wrote
                 /\ a_commands' = a_commands \o
                        [k \in 1..Len(out.ran) |-> [at |-> i, proc |-> out.ran[k]]]
  /\ UNCHANGED <<a_batch, a_return>>
  /\ UNCHANGED notExecVars

\* Lines 333-342: the loop is over; the results are returned.
ReturnResults ==
  /\ a_pc = "loop"
  /\ a_batch # <<>>
  /\ Len(a_results) = Len(a_batch)
  /\ a_pc' = "done"
  /\ a_return' = a_results
  /\ UNCHANGED <<a_batch, a_results, a_disk, a_memory, a_commands>>
  /\ UNCHANGED notExecVars

ExecNext == NoActions \/ ExecuteAction \/ ReturnResults

SpecExec == ExecInit /\ [][ExecNext]_vars

\* The action the loop executes next, and whether its type is none of the
\* eleven (a missing type included).
NextAction == a_batch[Len(a_results) + 1]
Executing == a_pc = "loop" /\ Len(a_results) < Len(a_batch)
UnknownTyped(action) ==
  /\ IsDict(action)
  /\ \/ ActionGet(action, "type") = Null
     \/ ActionGet(action, "type").s \notin ActionTypes

\* C13: executing an action whose type is not one of the eleven types, a
\* missing type included, does not raise, appends a result with success
\* false whose message names the unknown type, and writes no file, records
\* nothing in the memory and runs no command.
C13_UnknownTypeRejected ==
  [][(Executing /\ UnknownTyped(NextAction)) =>
       /\ a_pc' = "loop"
       /\ Len(a_results') = Len(a_results) + 1
       /\ a_results'[Len(a_results')].success = FALSE
       /\ a_results'[Len(a_results')].message =
            Str("Unknown action type: " \o TypeText(ActionGet(NextAction, "type")))
       /\ a_results'[Len(a_results')].type = ActionGet(NextAction, "type")
       /\ UNCHANGED <<a_disk, a_memory, a_commands>>]_vars

\* Reached: a batch with an action of type "bogus" and one with no type,
\* both executed.
C13_Witness ==
  /\ \E k \in 1..Len(a_results) :
       /\ a_batch[k] = Action(Str("bogus"), Str("a.py"), Absent)
       /\ a_results[k].message = Str("Unknown action type: bogus")
  /\ \E k \in 1..Len(a_results) :
       /\ a_batch[k] = Action(Absent, Str("a.py"), Str("cmd"))
       /\ a_results[k].message = Str("Unknown action type: None")

IsRunCommand(action) == IsDict(action) /\ ActionGet(action, "type") = Str("run_command")

AllObjects == \A k \in 1..Len(a_batch) : IsDict(a_batch[k])

\* C15: for every batch of actions, no exception ends the loop before its
\* last action: every action is executed in list order and execute_request
\* returns one result for each, also when a handler raises (create_file
\* with no path).
C15_EveryActionYieldsResult ==
  AllObjects =>
    /\ a_pc # "raised"
    /\ (a_pc = "done" /\ a_batch # <<>>) => Len(a_return) = Len(a_batch)

\* Reached: a create_file action with no path ended execute_request by an
\* exception, with actions of the batch after it never executed.
C15_BatchAborted ==
  /\ AllObjects
  /\ a_pc = "raised"
  /\ NextAction = Action(Str("create_file"), Absent, Absent)
  /\ Len(a_results) + 1 < Len(a_batch)

(***************************************************************************)
(* More claims about execute_query                                         *)
(***************************************************************************)

\* The place of a call in the candidate order: providers in the order of
\* providers_order, the models of a provider in the order of its list.
ProviderPos(name) == CHOOSE i \in 1..Len(providers_order) : providers_order[i] = name
Rank(call) == ProviderPos(call.provider) * (MaxModels + 2) + call.model

\* C16: the backend calls of one query follow the candidate order (local,
\* gemini, vscode; within a provider its models in list order), and no
\* (provider, model) candidate is called twice.
C16_CallsInCandidateOrder ==
  \A i, j \in 1..Len(q_calls) : i < j => Rank(q_calls[i]) < Rank(q_calls[j])

\* Reached: a finished query in which both models of local failed, then a
\* model of gemini, and vscode was called last.
C16_Witness ==
  /\ q_pc = "done"
  /\ Len(q_calls) >= 4
  /\ q_calls[1] = [provider |-> "local", model |-> 1]
  /\ q_calls[2] = [provider |-> "local", model |-> 2]
  /\ q_calls[3].provider = "gemini"
  /\ q_calls[Len(q_calls)].provider = "vscode"

\* C17: every backend call of a query is for an active provider and, when
\* the provider has models, for a model of its active_models.
C17_OnlyActiveInvoked ==
  \A k \in 1..Len(q_calls) :
    /\ config[q_calls[k].provider].active
    /\ q_calls[k].model # 0 =>
         q_calls[k].model \in config[q_calls[k].provider].active_models

\* Reached: local is active with models 1 and 2, of which only 2 is in
\* active_models, and the query called local with model 1.
C17_InactiveModelInvoked ==
  /\ config["local"].active
  /\ config["local"].models = 2
  /\ config["local"].active_models = {2}
  /\ Len(q_calls) >= 1
  /\ q_calls[1] = [provider |-> "local", model |-> 1]

\* The half of C17 that holds: no call is made for a provider that is not
\* active.
C17_InactiveProviderNotInvoked ==
  \A k \in 1..Len(q_calls) : config[q_calls[k].provider].active

\* C18: a response that is non-empty text carrying an error is never what
\* the query returns: the query goes on to the next candidate.
C18_ErrorTextNotReturned == q_result.kind # "error_text"

\* Reached: the first candidate answered with an error text, the query
\* returned that text, and gemini, active and with a model, was never called.
C18_ErrorTextReturned ==
  /\ q_pc = "done"
  /\ q_result = [kind |-> "error_text", from |-> 1]
  /\ q_calls = <<[provider |-> "local", model |-> 1]>>
  /\ q_raw = 1
  /\ ~ProviderSkipped("gemini")

(***************************************************************************)
(* LLMHandler.execute_query_stream                                         *)
(***************************************************************************)

\* Lines 233-239: the provider is passed over when it is not active, or has
\* no models and is not vscode.
StreamSkipped(name) ==
  \/ ~g_config[name].active
  \/ g_config[name].models = 0 /\ name # "vscode"

\* What one adapter call of the streaming loop can do.
\*   _query_local_stream and _query_gemini_stream (generators):
\*     "chunks"  text chunks, then the end of the stream
\*     "failed"  error status, exception of the request, missing API key:
\*               the generator yields "" and ends
\*     "broken"  text chunks, then an exception: the generator yields ""
\*     "silent"  a stream with no text in it: the generator yields nothing
\*     "raise"   _query_local_stream only: its "import requests" is outside
\*               its try block
\*   _query_vscode (called synchronously): "text" or "empty"
StreamOutcomes(name) ==
  IF name = "vscode" THEN {"text", "empty"}
  ELSE {"chunks", "failed", "broken", "silent"}
         \cup (IF name = "local" THEN {"raise"} ELSE {})

\* The chunks an adapter call hands to the caller of execute_query_stream.
Yielded(outcome) ==
  CASE outcome \in {"chunks", "text"} -> <<"t">>
    [] outcome = "failed" -> <<"">>
    [] outcome = "broken" -> <<"t", "">>
    [] OTHER -> <<>>

\* Lines 247-262: "yield from ...; return" for local and gemini, whatever
\* the generator did; for vscode "return" only under "if response_text".
ReturnsAfter(name, outcome) ==
  IF name = "vscode" THEN outcome = "text" ELSE outcome # "raise"

StreamInit ==
  /\ IdleQuery
  /\ IdleSan
  /\ IdleParse
  /\ IdleJson
  /\ IdlePlan
  /\ IdleExec
  /\ IdleMemory
  /\ IdleTerminal
  /\ IdleFactory
  /\ g_config \in [{"local", "gemini", "vscode"} -> ProviderConfigs]
  /\ g_pc = "loop"
  /\ g_prov = 1
  /\ g_model = 1
  /\ g_calls = <<>>
  /\ g_chunks = <<>>

\* Lines 233-239: "continue" of the provider loop.
StreamSkipProvider ==
  /\ g_pc = "loop"
  /\ g_prov <= Len(providers_order)
  /\ StreamSkipped(providers_order[g_prov])
  /\ g_prov' = g_prov + 1
  /\ g_model' = 1
  /\ UNCHANGED <<g_config, g_pc, g_calls, g_chunks>>
  /\ UNCHANGED notStreamVars

\* Lines 242-265: one iteration of the model loop.
StreamCandidate ==
  /\ g_pc = "loop"
  /\ g_prov <= Len(providers_order)
  /\ LET name == providers_order[g_prov]
         model == CandidateModels(g_config[name])[g_model]
     IN /\ ~StreamSkipped(name)
        /\ \E outcome \in StreamOutcomes(name) :
             /\ g_calls' = Append(g_calls,
                   [provider |-> name, model |-> model, outcome |-> outcome])
             /\ g_chunks' = g_chunks \o Yielded(outcome)
             /\ IF ReturnsAfter(name, outcome)
                  THEN /\ g_pc' = "done"
                       /\ UNCHANGED <<g_prov, g_model>>
                  ELSE /\ g_pc' = "loop"
                       /\ IF g_model < Len(CandidateModels(g_config[name]))
                            THEN g_model' = g_model + 1 /\ g_prov' = g_prov
                            ELSE g_model' = 1 /\ g_prov' = g_prov + 1
  /\ UNCHANGED g_config
  /\ UNCHANGED notStreamVars

\* Lines 267-270: every provider has been gone through: yield "".
StreamExhausted ==
  /\ g_pc = "loop"
  /\ g_prov > Len(providers_order)
  /\ g_pc' = "done"
  /\ g_chunks' = Append(g_chunks, "")
  /\ UNCHANGED <<g_config, g_prov, g_model, g_calls>>
  /\ UNCHANGED notStreamVars

StreamNext == StreamSkipProvider \/ StreamCandidate \/ StreamExhausted

SpecStream == StreamInit /\ [][StreamNext]_vars

\* The candidates of the configuration: the models of the providers that
\* are not passed over.
StreamCandidates ==
  UNION {{[provider |-> name, model |-> CandidateModels(g_config[name])[k]] :
             k \in 1..Len(CandidateModels(g_config[name]))} :
           name \in {n \in {"local", "gemini", "vscode"} : ~StreamSkipped(n)}}

\* C19: a stream that ends having yielded the failure sentinel, one empty
\* chunk, has tried every candidate, and each of them failed.
C19_SentinelOnlyWhenAllTried ==
  (g_pc = "done" /\ g_chunks = <<"">>) =>
    /\ \A c \in StreamCandidates :
         \E k \in 1..Len(g_calls) :
           g_calls[k].provider = c.provider /\ g_calls[k].model = c.model
    /\ \A k \in 1..Len(g_calls) : g_calls[k].outcome \notin {"chunks", "text"}

\* Reached: the stream of the first candidate failed and the query ended
\* with the one empty chunk, while vscode, active, was never called.
C19_SentinelWithUntried ==
  /\ g_pc = "done"
  /\ g_chunks = <<"">>
  /\ g_calls = <<[provider |-> "local", model |-> 1, outcome |-> "failed"]>>
  /\ ~StreamSkipped("vscode")

(***************************************************************************)
(* The plan invariant after sanitize_plan                                  *)
(***************************************************************************)

Listed(c) == IF c.t = "list" THEN {c.xs[i] : i \in 1..Len(c.xs)} ELSE {}
StepFiles(steps) ==
  {Get(steps[i], "file") : i \in {k \in 1..Len(steps) : IsDict(steps[k]) /\ Has(steps[k], "file")}}

\* C20: in the plan sanitize_plan returns, the file of every step is in
\* exactly one of files.create and files.modify, and every file of these
\* two lists is the file of some step.
C20_PlanInvariant ==
  (s_pc = "once" /\ ~s_out1.raised) =>
    /\ \A f \in StepFiles(OutSteps) :
         (f \in Listed(Get(OutFiles, "create"))) # (f \in Listed(Get(OutFiles, "modify")))
    /\ \A f \in Listed(Get(OutFiles, "create")) \cup Listed(Get(OutFiles, "modify")) :
         f \in StepFiles(OutSteps)

\* The plan given already has the shape of a plan: both lists are lists of
\* strings and every step is an object with a string as its file.
WellShaped(plan) ==
  /\ IsDict(plan) /\ Has(plan, "files") /\ Has(plan, "steps")
  /\ IsDict(Get(plan, "files"))
  /\ \A c \in {"create", "modify"} :
       /\ Has(Get(plan, "files"), c)
       /\ Get(Get(plan, "files"), c).t = "list"
       /\ \A f \in Listed(Get(Get(plan, "files"), c)) : f.t = "str"
  /\ Get(plan, "steps").t = "list"
  /\ \A i \in 1..Len(Get(plan, "steps").xs) :
       LET step == Get(plan, "steps").xs[i]
       IN IsDict(step) /\ Has(step, "file") /\ Get(step, "file").t = "str"

\* Reached: a plan of the right shape went through sanitize_plan and the
\* plan returned lists a file that no step names.
C20_ListedFileWithoutStep ==
  /\ s_pc = "once"
  /\ ~s_out1.raised
  /\ WellShaped(s_in)
  /\ \E f \in Listed(Get(OutFiles, "create")) \cup Listed(Get(OutFiles, "modify")) :
       f \notin StepFiles(OutSteps)

\* Reached: a plan of the right shape went through sanitize_plan and the
\* file of a step of the plan returned is in both lists.
C20_StepFileInBothLists ==
  /\ s_pc = "once"
  /\ ~s_out1.raised
  /\ WellShaped(s_in)
  /\ \E f \in StepFiles(OutSteps) :
       f \in Listed(Get(OutFiles, "create")) /\ f \in Listed(Get(OutFiles, "modify"))

\* C21: the states of a run come in their order.  A step that writes a
\* project file is a step of APPLYING, taken when every step of the plan
\* has been generated and previewed; once APPLYING has begun no query is
\* sent and no preview answered; APPLYING is entered from the approval of
\* the plan or from the generation only, the generation from the approval
\* only, and the approval from the creation of the plan only.
C21_StatesInOrder ==
  [][/\ (p_disk' # p_disk \/ p_applied' # p_applied) =>
          /\ p_pc = "APPLYING"
          /\ p_plan # Null
          /\ p_step > Len(PlanStepsOf(p_plan))
     /\ p_pc \in {"APPLYING", "DONE", "FAILED", "REJECTED"} =>
          /\ p_queries' = p_queries
          /\ p_previews' = p_previews
          /\ p_changes' = p_changes
     /\ (p_pc' = "APPLYING" /\ p_pc # "APPLYING") =>
          p_pc \in {"AWAITING_PLAN_APPROVAL", "GENERATING_STEPS"}
     /\ (p_pc' = "GENERATING_STEPS" /\ p_pc # "GENERATING_STEPS") =>
          p_pc = "AWAITING_PLAN_APPROVAL"
     /\ p_pc' = "AWAITING_PLAN_APPROVAL" => p_pc = "CREATING_PLAN"
     /\ p_pc' = "REJECTED" => (p_pc = "AWAITING_PLAN_APPROVAL" /\ p_disk = p_start.disk)
     /\ p_pc' = "DONE" => p_pc = "APPLYING"]_vars

\* Reached: a run that generated and previewed two steps, then wrote the
\* two files.
C21_Witness ==
  /\ p_pc = "DONE"
  /\ p_queries.file = 2
  /\ Len(p_applied) = 2
  /\ p_disk["a.py"] # p_start.disk["a.py"]
  /\ p_disk["b.py"] # p_start.disk["b.py"]

\* C22: the answer "edit" at a preview schedules nothing for writing: the
\* step that records such an answer leaves the accepted changes as they
\* were (the generated content waits for the preview that follows the edit).
C22_EditSchedulesNothing ==
  [][\A v \in p_previews' \ p_previews : v.edit => p_changes' = p_changes]_vars

\* Reached: the one preview of the run, of a.py, was answered "edit", no
\* other preview followed, and a.py was written with the generated code.
C22_EditWritesGenerated ==
  /\ p_pc = "DONE"
  /\ p_previews = {[file |-> "a.py", accepted |-> TRUE, edit |-> TRUE]}
  /\ p_queries.file = 1
  /\ p_disk["a.py"] = Code(1)
  /\ p_result.success

\* The run ended on a write that failed in APPLYING.
WriteFailed == p_pc = "FAILED" /\ p_plan # Null

\* C23: when a write of APPLYING fails, the files written before it hold
\* the content accepted for them, the accepted files from the failing one
\* on are as they were when the run started, and the run has returned a
\* result with success false.
C23_PartialFailureKept ==
  WriteFailed =>
    /\ Len(p_applied) < Len(p_changes)
    /\ \A k \in 1..Len(p_applied) :
         /\ p_applied[k] = p_changes[k].file
         /\ p_disk[p_applied[k]] = p_changes[k].content
    /\ \A k \in (Len(p_applied) + 1)..Len(p_changes) :
         p_disk[p_changes[k].file] = p_start.disk[p_changes[k].file]
    /\ ~p_result.success

\* Reached: two files were accepted, the first was written and the write
\* of the second failed.
C23_Witness ==
  /\ WriteFailed
  /\ Len(p_changes) = 2
  /\ p_applied = <<"a.py">>
  /\ p_disk["a.py"] = Code(1)
  /\ p_start.disk["a.py"] = OldContent
  /\ p_disk["b.py"] = NoContent

\* C29: at the end of a run, whatever its outcome, files_changed of the
\* result names the files written during the run, no more and no fewer.
C29_FilesChangedExact ==
  p_pc \in {"DONE", "REJECTED", "FAILED"} =>
    {p_result.files_changed[k] : k \in 1..Len(p_result.files_changed)} =
      {f \in Files : \E k \in 1..Len(p_applied) : p_applied[k] = f}

\* Reached: a.py was written with new content, the next write failed, and
\* the result of the run has an empty files_changed.
C29_WrittenNotReported ==
  /\ WriteFailed
  /\ p_applied = <<"a.py">>
  /\ p_disk["a.py"] = Code(1)
  /\ p_disk["a.py"] # p_start.disk["a.py"]
  /\ p_result.files_changed = <<>>

\* C27: no project file ever holds the content of a failed generation
\* query (the empty code extracted from the failure sentinel): the file of
\* such a step is neither created nor overwritten.
C27_FailedQueryNotWritten == \A f \in Files : p_disk[f] # EmptyCode

\* Reached: the generation query for a.py failed, the preview was accepted,
\* and a.py, which held content before the run, was overwritten with the
\* empty code while the run reports success.
C27_EmptyCodeWritten ==
  /\ p_pc = "DONE"
  /\ p_start.disk["a.py"] = OldContent
  /\ p_disk["a.py"] = EmptyCode
  /\ p_result.success

\* The plan of the run is the one parse_plan_response builds from the
\* failure sentinel "" (no plan of the LLM has this description).
PlanFromSentinel ==
  p_plan # Null /\ Get(p_plan, "description") = Str("Implementation plan")

\* C28: a run whose plan query returned the failure sentinel never asks for
\* the approval of a plan, sends no generation query and does not end with
\* success true.
C28_SentinelPlanFails ==
  PlanFromSentinel =>
    /\ p_pc \notin {"AWAITING_PLAN_APPROVAL", "GENERATING_STEPS", "APPLYING", "DONE"}
    /\ ~p_result.success

\* Reached: the plan query returned the sentinel, the empty plan made from
\* it was shown and accepted, and the run ended with success true.
C28_SentinelPlanSucceeds ==
  /\ PlanFromSentinel
  /\ PlanStepsOf(p_plan) = <<>>
  /\ p_pc = "DONE"
  /\ p_result.success
  /\ p_result.files_changed = <<>>

(***************************************************************************)
(* The agent memory: AgentHandler._initialize_memory, the handlers that    *)
(* record a file, and _save_memory                                         *)
(***************************************************************************)

MaxWrites == 3       \* most records written in one behaviour

Writers == {1, 2}    \* the AgentHandler objects made for the project
Paths == {"a.py", "b.py"}
Contents == {"one", "two"}

NoRecord == [content |-> "", time |-> 0]
Record(content, time) == [content |-> content, time |-> time]

\* Line 63: the "files" of the memory of a project with no memory file.
NoRecords == [p \in Paths |-> NoRecord]

\* _initialize_memory, lines 49-63: the memory is what the memory file
\* holds, or the empty memory when there is no file.
LoadedMemory(store) == IF store.exists THEN store.files ELSE NoRecords

\* A save that keeps the records of the file the saver does not have.
MergedIntoStore(store, memory) ==
  [exists |-> TRUE,
   files |-> [p \in Paths |-> IF memory[p] # NoRecord THEN memory[p] ELSE store.files[p]]]

\* _save_memory, lines 65-73: json.dump(self.memory) into the file opened
\* with "w": the file holds the saver's memory and nothing else.
SavedStore(store, memory) == [exists |-> TRUE, files |-> memory]

\* Lines 505-509 (_create_file; the same statement in _read_file 544-548,
\* _edit_file, and execute_plan_with_preview 561-565):
\* self.memory["files"][rel_path] = {"last_content", "last_updated"}
WithRecord(memory, path, record) == [memory EXCEPT ![path] = record]

MemoryInit ==
  /\ IdleQuery
  /\ IdleSan
  /\ IdleParse
  /\ IdleJson
  /\ IdlePlan
  /\ IdleExec
  /\ IdleStream
  /\ IdleTerminal
  /\ IdleFactory
  /\ m_pc = [w \in Writers |-> "new"]
  /\ m_store = [exists |-> FALSE, files |-> NoRecords]
  /\ m_memory = [w \in Writers |-> NoRecords]
  /\ m_clock = 0
  /\ m_written = {}
  /\ m_saves = <<>>
  /\ m_loadedAt = [w \in Writers |-> 0]

\* AgentHandler.__init__, line 47: self._initialize_memory().
MakeAgent(w) ==
  /\ m_pc[w] = "new"
  /\ m_pc' = [m_pc EXCEPT ![w] = "ready"]
  /\ m_memory' = [m_memory EXCEPT ![w] = LoadedMemory(m_store)]
  /\ m_loadedAt' = [m_loadedAt EXCEPT ![w] = Len(m_saves)]
  /\ UNCHANGED <<m_store, m_clock, m_written, m_saves>>
  /\ UNCHANGED notMemoryVars

\* A handler that records a file (create_file, read_file, edit_file, the
\* apply loop of the planner): the record of the path is set in the
\* writer's memory and the memory is saved.
RecordFile(w) ==
  /\ m_pc[w] = "ready"
  /\ m_clock < MaxWrites
  /\ \E path \in Paths, content \in Contents :
       LET record == Record(content, m_clock + 1)
           memory == WithRecord(m_memory[w], path, record)
       IN /\ m_memory' = [m_memory EXCEPT ![w] = memory]
          /\ m_store' = SavedStore(m_store, memory)
          /\ m_written' = m_written \cup
               {[path |-> path, content |-> content, time |-> m_clock + 1, by |-> w]}
  /\ m_clock' = m_clock + 1
  /\ m_saves' = Append(m_saves, w)
  /\ UNCHANGED <<m_pc, m_loadedAt>>
  /\ UNCHANGED notMemoryVars

MemoryNext == \E w \in Writers : MakeAgent(w) \/ RecordFile(w)

SpecMemory == MemoryInit /\ [][MemoryNext]_vars

(***************************************************************************)
(* Claims about the memory                                                 *)
(***************************************************************************)

Stored(r) == m_store.exists /\ m_store.files[r.path] = Record(r.content, r.time)

\* C24: every record that was ever written is still in the stored memory,
\* with the content and the time it was written with.
C24_RecordsKept == \A r \in m_written : Stored(r)

\* Reached: one writer only; it recorded a.py, then recorded a.py again,
\* and the first record is gone from its memory and from the file.
C24_RecordOverwritten ==
  /\ m_pc[2] = "new"
  /\ \E r \in m_written :
       /\ r = [path |-> "a.py", content |-> "one", time |-> 1, by |-> 1]
       /\ ~Stored(r)
       /\ m_memory[1]["a.py"] = Record("two", 2)
       /\ m_store.files["a.py"] = Record("two", 2)

SavedBy(u) == \E k \in 1..Len(m_saves) : m_saves[k] = u
SavedBefore(u, n) == \E k \in 1..n : k <= Len(m_saves) /\ m_saves[k] = u

\* C25: two writers on one project.  When the writer that saved last had
\* loaded the memory before the other writer's first save, the stored
\* memory holds none of the records the other writer saved: its updates
\* are lost.
C25_LostUpdate ==
  \A w, u \in Writers :
    (/\ w # u
     /\ m_saves # <<>>
     /\ m_saves[Len(m_saves)] = w
     /\ SavedBy(u)
     /\ ~SavedBefore(u, m_loadedAt[w])) =>
       \A r \in m_written : r.by = u => ~Stored(r)

\* Reached: both writers loaded the empty memory, writer 1 recorded a.py
\* and saved, writer 2 recorded b.py and saved: the file has b.py only.
C25_Witness ==
  /\ m_saves = <<1, 2>>
  /\ m_loadedAt = [w \in Writers |-> 0]
  /\ [path |-> "a.py", content |-> "one", time |-> 1, by |-> 1] \in m_written
  /\ m_store.files["a.py"] = NoRecord
  /\ m_store.files["b.py"] = Record("two", 2)

(***************************************************************************)
(* TerminalManager.execute_command (src/terminal/terminal_manager.py)      *)
(***************************************************************************)

MaxLines == 2        \* most lines the process writes to one stream

Streams == {"stdout", "stderr"}

Item(stream, line) == [stream |-> stream, line |-> line]

\* Line 301: output_queue.put(('exit', ''))
ExitItem == Item("exit", 0)

TerminalInit ==
  /\ IdleQuery
  /\ IdleSan
  /\ IdleParse
  /\ IdleJson
  /\ IdlePlan
  /\ IdleExec
  /\ IdleStream
  /\ IdleMemory
  /\ IdleFactory
  /\ x_pipe \in [Streams -> 0..MaxLines]
  /\ x_exited = FALSE
  /\ x_reader = [s \in Streams |-> "reading"]
  /\ x_queue = <<>>
  /\ x_consumer = "loop"
  /\ x_yielded = <<>>

\* The process, having written its lines, exits: poll() is not None from
\* now on and the readers find the end of their pipes.
ProcessExits ==
  /\ ~x_exited
  /\ x_exited' = TRUE
  /\ UNCHANGED <<x_pipe, x_reader, x_queue, x_consumer, x_yielded>>
  /\ UNCHANGED notTerminalVars

\* _read_output, lines 295-297: one turn of "for line in iter(pipe.readline,
\* '')": the next line of the pipe is put in the queue.
ReadLine(s) ==
  /\ x_reader[s] = "reading"
  /\ x_pipe[s] > 0
  /\ x_pipe' = [x_pipe EXCEPT ![s] = @ - 1]
  /\ x_queue' = Append(x_queue, Item(s, x_pipe[s]))
  /\ UNCHANGED <<x_exited, x_reader, x_consumer, x_yielded>>
  /\ UNCHANGED notTerminalVars

\* _read_output, lines 298-301: at the end of the pipe the thread closes it
\* and puts ('exit', '') in the queue.
ReaderEnds(s) ==
  /\ x_reader[s] = "reading"
  /\ x_pipe[s] = 0
  /\ x_exited
  /\ x_reader' = [x_reader EXCEPT ![s] = "done"]
  /\ x_queue' = Append(x_queue, ExitItem)
  /\ UNCHANGED <<x_pipe, x_exited, x_consumer, x_yielded>>
  /\ UNCHANGED notTerminalVars

\* Lines 257-258: "if output_type == 'exit': break".
BreaksOn(item) == item = ExitItem

\* Lines 255-259: output_queue.get returned an item: the loop is left on an
\* exit item, any other item is yielded.
TakeItem ==
  /\ x_consumer = "loop"
  /\ x_queue # <<>>
  /\ x_queue' = Tail(x_queue)
  /\ IF BreaksOn(Head(x_queue))
       THEN x_consumer' = "waiting" /\ UNCHANGED x_yielded
       ELSE x_yielded' = Append(x_yielded, Head(x_queue)) /\ UNCHANGED x_consumer
  /\ UNCHANGED <<x_pipe, x_exited, x_reader>>
  /\ UNCHANGED notTerminalVars

\* Lines 260-264: output_queue.get timed out on the empty queue and the
\* process has exited: the loop is left.
TimeOut ==
  /\ x_consumer = "loop"
  /\ x_queue = <<>>
  /\ x_exited
  /\ x_consumer' = "waiting"
  /\ UNCHANGED <<x_pipe, x_exited, x_reader, x_queue, x_yielded>>
  /\ UNCHANGED notTerminalVars

\* Lines 266-283: process.wait() returns once the process has exited, and
\* execute_command finishes.
Finished ==
  /\ x_consumer = "waiting"
  /\ x_exited
  /\ x_consumer' = "done"
  /\ UNCHANGED <<x_pipe, x_exited, x_reader, x_queue, x_yielded>>
  /\ UNCHANGED notTerminalVars

TerminalNext ==
  \/ ProcessExits
  \/ \E s \in Streams : ReadLine(s) \/ ReaderEnds(s)
  \/ TakeItem
  \/ TimeOut
  \/ Finished

SpecTerminal == TerminalInit /\ [][TerminalNext]_vars

\* C26: once execute_command has finished, no line a reader thread put in
\* the queue is left in it: every such line was yielded before.
C26_AllLinesDelivered ==
  x_consumer = "done" => \A k \in 1..Len(x_queue) : x_queue[k] = ExitItem

\* Reached: execute_command has finished having yielded nothing, and a
\* line of stderr that its reader put in the queue is still there.
C26_LineLeftInQueue ==
  /\ x_consumer = "done"
  /\ x_yielded = <<>>
  /\ \E k \in 1..Len(x_queue) : x_queue[k] = Item("stderr", 1)
  /\ x_reader = [s \in Streams |-> "done"]

(***************************************************************************)
(* get_agent (src/agent_handler.py)                                        *)
(***************************************************************************)

MaxCalls == 3        \* most calls of get_agent in one behaviour

Projects == {"p1", "p2", "p3"}
Handlers == {"llm1", "llm2"}

\* Line 977: _agent_instance = None
NoAgent == [made |-> FALSE, llm |-> "", project_path |-> ""]

\* AgentHandler.__init__, lines 20-21: self.llm and self.project_path.
NewAgent(llm_handler, project_path) ==
  [made |-> TRUE, llm |-> llm_handler, project_path |-> project_path]

\* get_agent, lines 982-984: an agent is made only when there is none yet;
\* the instance there is, is returned whatever the arguments.
AgentFor(instance, llm_handler, project_path) ==
  IF instance = NoAgent THEN NewAgent(llm_handler, project_path) ELSE instance

FactoryInit ==
  /\ IdleQuery
  /\ IdleSan
  /\ IdleParse
  /\ IdleJson
  /\ IdlePlan
  /\ IdleExec
  /\ IdleStream
  /\ IdleMemory
  /\ IdleTerminal
  /\ f_pc = "run"
  /\ f_instance = NoAgent
  /\ f_calls = <<>>
  /\ f_returned = NoAgent

\* get_agent(llm_handler, project_path), lines 979-984.
GetAgent ==
  /\ f_pc = "run"
  /\ Len(f_calls) < MaxCalls
  /\ \E llm_handler \in Handlers, project_path \in Projects :
       /\ f_instance' = AgentFor(f_instance, llm_handler, project_path)
       /\ f_returned' = f_instance'
       /\ f_calls' = Append(f_calls, [llm |-> llm_handler, project_path |-> project_path])
  /\ UNCHANGED f_pc
  /\ UNCHANGED notFactoryVars

FactoryNext == GetAgent

SpecFactory == FactoryInit /\ [][FactoryNext]_vars

\* C30: after every call get_agent(llm, p), the agent returned has p as its
\* project path and llm as its handler.
C30_AgentBoundToArguments ==
  f_calls # <<>> =>
    /\ f_returned.made
    /\ f_returned.project_path = f_calls[Len(f_calls)].project_path
    /\ f_returned.llm = f_calls[Len(f_calls)].llm

\* Reached: get_agent("llm1", "p1") then get_agent("llm2", "p2"): the
\* second call returned the agent of project p1 with handler llm1.
C30_AgentOfFirstCall ==
  /\ f_calls = <<[llm |-> "llm1", project_path |-> "p1"],
                 [llm |-> "llm2", project_path |-> "p2"]>>
  /\ f_returned = NewAgent("llm1", "p1")

====
